---- MODULE Spec2Model ----
(***************************************************************************)
(* A model of the arrgh-fastapi newsletter pipeline: the LLM entity        *)
(* extractor's filter, the Neo4j client (retry wrapper, connect, the       *)
(* MERGE statements of the entity upsert, the newsletter node and the      *)
(* MENTIONED_IN link) and NewsletterProcessor.process_newsletter.          *)
(*                                                                         *)
(* Confidences are tenths (0.7 is 7).  The instant datetime() reads in a   *)
(* statement is named by the statement itself (the instance, its           *)
(* newsletter, the loop index and the step): two statements never read the *)
(* same instant, and nothing in the code orders two instants.              *)
(***************************************************************************)
EXTENDS Integers, Sequences, FiniteSets, TLC

\* ------------------------------------------------------------- bounds
\* Length of the entity list an LLM response may carry.
MaxCands == 2
\* Newsletters one service instance processes, one after the other.
MaxNewsletters == 2
\* Newsletters each of two concurrent service instances processes.
MaxShared == 1
\* The largest max_retries a caller's own wrapped operation is given.
MaxRetries == 2
\* Calls of connect() on one client.
MaxConnects == 2
\* Calls of close() on one client.
MaxCloses == 2
\* Calls of create_newsletter_node made directly on one client.
MaxStatements == 4
\* Length of the entity list of a response given to the extractor by itself.
MaxExtract == 3
\* Calls of setup_constraints_and_indexes on one client.
MaxSetups == 2
\* Schema statements that fail in one call of it.
MaxFailures == 2
\* Newsletters the service processes while its endpoints are observed.
MaxAppNewsletters == 1
\* Requests of GET /newsletter/stats.
MaxStatsCalls == 2
\* Requests of GET /health.
MaxHealthChecks == 2
\* Calls of one retry-wrapped function that are over when another begins.
MaxWrapped == 2
\* NewsletterProcessor objects the router builds.
MaxProcessors == 3
\* Calls of reconnect_if_needed on one client.
MaxReconnects == 2
\* Direct calls of get_connection_health on one client.
MaxHealths == 1

\* ---------------------------------------------------------- constants
\* config.entity_confidence_threshold (0.7, in tenths).
ENTITY_CONFIDENCE_THRESHOLD == 7
\* config.max_entities_per_newsletter, set as the extractor's test sets it.
MAX_ENTITIES_PER_NEWSLETTER == 2
\* Entity.confidence: Field(ge=0.0, le=1.0), in tenths.
ConfidenceLe == 10

\* The six labels of the schema and of entity_summary.
EntityTypes == {"Organization", "Person", "Product", "Event", "Location", "Topic"}

\* A property that was never SET reads as null in Cypher.
NoTime == <<>>
\* A key absent from an entity_data dict.
Missing == "<missing>"
NoConf == -1

VARIABLES
    nodes,        \* entity nodes of the graph
    newsletters,  \* Newsletter nodes of the graph
    edges,        \* MENTIONED_IN relationships
    constraints,  \* labels that carry a uniqueness constraint on name
    run,          \* per instance: the state of its process_newsletter call
    hist,         \* per (type, name): the upserts that returned a row, in order
    client,       \* a Neo4jClient: its driver handle and where its connect() is
    call,         \* the call of a retry-wrapped function that runs or ran last
    open_drivers, \* the driver objects created and not closed
    service,      \* the FastAPI app: its shutdown flag and its last answers
    wrapped       \* a second call of a retry-wrapped function, and the calls done

pipeVars == <<nodes, newsletters, edges, constraints, run, hist>>
connVars == <<client, call, open_drivers>>
appVars == <<service, wrapped>>
vars == <<nodes, newsletters, edges, constraints, run, hist, client, call, open_drivers, wrapped,
          service>>

Runs == {1, 2}

\* ------------------------------------------------------- LLM responses
\* entity_data dicts an LLM response may carry.
RawEntity(name, type, confidence, aliases, context, properties) ==
    [name |-> name, type |-> type, confidence |-> confidence,
     aliases |-> aliases, context |-> context, properties |-> properties]

RawPool ==
    { RawEntity("OpenAI", "Organization", 9, {"OAI"}, "ctx1", <<"k", "v">>),
      RawEntity("OpenAI", "Organization", 8, {}, "ctx2", <<>>),
      RawEntity("OpenAI", "Organization", 5, {}, "ctx3", <<>>),
      RawEntity("OpenAI", "Widget", 9, {}, "ctx1", <<>>),
      RawEntity("", "Organization", 9, {}, "ctx1", <<>>) }

\* The candidates two instances that run at once are given: one key, two confidences.
SharedPool == { d \in RawPool : d.name = "OpenAI" /\ d.type = "Organization"
                                /\ d.confidence >= ENTITY_CONFIDENCE_THRESHOLD }

\* Valid candidates of two keys and two types.
ValidPool ==
    { RawEntity("OpenAI", "Organization", 9, {"OAI"}, "ctx1", <<"k", "v">>),
      RawEntity("GPT", "Product", 8, {}, "ctx4", <<>>) }

\* What chat.completions.create and json.loads give extract_entities: a parsed
\* entity list, an exception of the call, or text that is no JSON; or there is no
\* OpenAI client to call.
ResponsesUpTo(pool, len) ==
    { [kind |-> "ok", entities |-> l] : l \in UNION { [1..n -> pool] : n \in 0..len } }
        \cup { [kind |-> k, entities |-> <<>>] : k \in {"raise", "badjson", "noclient"} }

ResponsesOf(pool) == ResponsesUpTo(pool, MaxCands)

\* entity_data dicts given to the extractor by itself: four confidences around the
\* threshold, a dict without name, one without type, one without confidence and
\* one whose confidence is out of range.
ExtractPool ==
    { RawEntity("E0", "Organization", 9, {}, "test", <<>>),
      RawEntity("E1", "Organization", 8, {}, "test", <<>>),
      RawEntity("E2", "Organization", 7, {}, "test", <<>>),
      RawEntity("LowConf", "Organization", 5, {}, "test", <<>>),
      RawEntity(Missing, "Organization", 9, {}, "test", <<>>),
      RawEntity("NoType", Missing, 9, {}, "test", <<>>),
      RawEntity("NoConfidence", "Organization", NoConf, {}, "test", <<>>),
      RawEntity("TooSure", "Organization", 11, {}, "test", <<>>) }

\* ----------------------------------------------------------- extractor
\* entity_data.get('confidence', 0)
GetConfidence(d) == IF d.confidence = NoConf THEN 0 ELSE d.confidence

\* The filter left out.
BelowThreshold_Never(d) == FALSE

\* The threshold filter of the conversion loop: TRUE when the dict is skipped.
BelowThreshold(d) == GetConfidence(d) < ENTITY_CONFIDENCE_THRESHOLD

\* Entity(...) raises: a KeyError of a required key, or pydantic's range check.
EntityRaises(d) ==
    \/ d.name = Missing
    \/ d.type = Missing
    \/ d.confidence = NoConf
    \/ d.confidence < 0
    \/ d.confidence > ConfidenceLe

\* Entity(name=..., type=..., aliases=..., confidence=..., context=..., properties=...)
Entity(d) ==
    [name |-> d.name, type |-> d.type, aliases |-> d.aliases,
     confidence |-> d.confidence, context |-> d.context, properties |-> d.properties]

\* The conversion loop: the entities kept, or raised when a dict that passed the
\* filter cannot be made an Entity.
RECURSIVE ConvertFrom(_, _)
ConvertFrom(ds, i) ==
    IF i > Len(ds) THEN [raised |-> FALSE, entities |-> <<>>]
    ELSE IF BelowThreshold(ds[i]) THEN ConvertFrom(ds, i + 1)
    ELSE IF EntityRaises(ds[i]) THEN [raised |-> TRUE, entities |-> <<>>]
    ELSE LET rest == ConvertFrom(ds, i + 1)
         IN  [raised |-> rest.raised,
              entities |-> IF rest.raised THEN <<>> ELSE <<Entity(ds[i])>> \o rest.entities]

\* sorted(entities, key=confidence, reverse=True) is stable: an element goes in
\* front of the sorted rest's elements of equal or lower confidence.
RECURSIVE InsertDesc(_, _)
InsertDesc(e, s) ==
    IF s = <<>> \/ e.confidence >= Head(s).confidence THEN <<e>> \o s
    ELSE <<Head(s)>> \o InsertDesc(e, Tail(s))

RECURSIVE SortDesc(_)
SortDesc(s) ==
    IF s = <<>> THEN <<>> ELSE InsertDesc(Head(s), SortDesc(Tail(s)))

\* A cap that cuts the list as it stands.
LimitEntities_Unsorted(es) ==
    IF Len(es) > MAX_ENTITIES_PER_NEWSLETTER
    THEN SubSeq(es, 1, MAX_ENTITIES_PER_NEWSLETTER)
    ELSE es

\* The cap on the number of entities.
LimitEntities(es) ==
    IF Len(es) > MAX_ENTITIES_PER_NEWSLETTER
    THEN SubSeq(SortDesc(es), 1, MAX_ENTITIES_PER_NEWSLETTER)
    ELSE es

\* EntityExtractor.extract_entities on a response of the LLM.
ExtractEntities(resp) ==
    IF resp.kind # "ok" THEN <<>>
    ELSE LET conv == ConvertFrom(resp.entities, 1)
         IN  IF conv.raised THEN <<>> ELSE LimitEntities(conv.entities)

\* An extractor that goes to the LLM whether it has a client or not.
ExtractCall_NoGuard(has_client, resp) ==
    [llm_called |-> TRUE, entities |-> ExtractEntities(resp)]

\* extract_entities of an extractor with or without an OpenAI client: without
\* one it returns [] before anything else.
ExtractCall(has_client, resp) ==
    IF ~ has_client THEN [llm_called |-> FALSE, entities |-> <<>>]
    ELSE [llm_called |-> TRUE, entities |-> ExtractEntities(resp)]

\* ------------------------------------------------------------ the store
\* json.dumps(entity.properties) if entity.properties else None
PropertiesJson(properties) ==
    IF properties = <<>> THEN <<"null">> ELSE <<"json">> \o properties

\* Cypher's = : a comparison with null is not true.
CypherEq(a, b) == a # NoTime /\ b # NoTime /\ a = b

\* MATCH (e:<type> {name: $name})
Matching(g, type, name) == { e \in g : e.type = type /\ e.name = name }

\* MERGE ... ON CREATE SET
OnCreate(entity, now) ==
    \* the node's identity in the store: that of the statement that made it
    [id |-> now, type |-> entity.type, name |-> entity.name,
     created_at |-> now,
     confidence |-> entity.confidence,
     aliases |-> entity.aliases,
     mention_count |-> 1,
     properties_json |-> PropertiesJson(entity.properties),
     last_seen |-> NoTime]

\* ON MATCH SET that takes the candidate's confidence whatever the node's.
OnMatch_Overwrite(e, entity, now) ==
    [e EXCEPT !.last_seen = now,
              !.mention_count = @ + 1,
              !.confidence = entity.confidence]

\* ON MATCH SET with the CASE's comparison turned round.
OnMatch_Min(e, entity, now) ==
    [e EXCEPT !.last_seen = now,
              !.mention_count = @ + 1,
              !.confidence = IF entity.confidence < @ THEN entity.confidence ELSE @]

\* ON MATCH SET that also takes up the candidate's aliases and properties.
OnMatch_MergesAliases(e, entity, now) ==
    [e EXCEPT !.last_seen = now,
              !.mention_count = @ + 1,
              !.confidence = IF entity.confidence > @ THEN entity.confidence ELSE @,
              !.aliases = @ \cup entity.aliases,
              !.properties_json = PropertiesJson(entity.properties)]

\* MERGE ... ON MATCH SET
OnMatch(e, entity, now) ==
    [e EXCEPT !.last_seen = now,
              !.mention_count = @ + 1,
              !.confidence = IF entity.confidence > @ THEN entity.confidence ELSE @]

\* RETURN ... CASE WHEN e.created_at = e.last_seen THEN 'created' ELSE 'updated' END
Operation(e) == IF CypherEq(e.created_at, e.last_seen) THEN "created" ELSE "updated"

\* The graph after the ON MATCH branch ran on every matched node.
MergeMatched(g, entity, now) ==
    { IF e.type = entity.type /\ e.name = entity.name THEN OnMatch(e, entity, now) ELSE e
      : e \in g }

\* The graph after the ON CREATE branch.
MergeCreated(g, entity, now) == g \cup { OnCreate(entity, now) }

\* The Newsletter object of a request.
Newsletter(nid, subject, sender, received_date, content_length) ==
    [newsletter_id |-> nid, subject |-> subject, sender |-> sender,
     received_date |-> received_date, content_length |-> content_length]

\* The node a newsletter's ON CREATE SET makes.
NewsletterNode(newsletter, now) ==
    [id |-> newsletter.newsletter_id, subject |-> newsletter.subject,
     sender |-> newsletter.sender, received_date |-> newsletter.received_date,
     created_at |-> now, content_length |-> newsletter.content_length]

\* A MERGE that sets the properties on a match as well.
MergeNewsletter_Overwrite(ns, newsletter, now) ==
    { n \in ns : n.id # newsletter.newsletter_id } \cup { NewsletterNode(newsletter, now) }

\* MERGE (n:Newsletter {id: $newsletter_id}) ON CREATE SET ...
MergeNewsletter(ns, newsletter, now) ==
    IF \E n \in ns : n.id = newsletter.newsletter_id THEN ns
    ELSE ns \cup { NewsletterNode(newsletter, now) }

\* CREATE in place of MERGE: a relationship per call.
MergeMentionedIn_Create(es, g, ns, type, name, nid, context, now) ==
    es \cup { [src |-> p[1].id, dst |-> p[2].id, date |-> now, context |-> context]
              : p \in Matching(g, type, name) \X { n \in ns : n.id = nid } }

\* MATCH (e) MATCH (n) MERGE (e)-[r:MENTIONED_IN]->(n) ON CREATE SET r.date, r.context
MergeMentionedIn(es, g, ns, type, name, nid, context, now) ==
    es \cup { [src |-> p[1].id, dst |-> p[2].id, date |-> now, context |-> context]
              : p \in { q \in Matching(g, type, name) \X { n \in ns : n.id = nid }
                        : ~ \E r \in es : r.src = q[1].id /\ r.dst = q[2].id } }

\* A uniqueness constraint can be created only over data that satisfies it.
Unique(g, type) ==
    \A a, b \in g : (a.type = type /\ b.type = type /\ a.name = b.name) => a.id = b.id

\* ------------------------------------------------- NewsletterProcessor
KeyOf(entity) == <<entity.type, entity.name>>

Keys == { <<d.type, d.name>> : d \in RawPool \cup ValidPool }

\* entity_summary = {'Organization': 0, ..., 'Topic': 0}
EmptySummary == [t \in EntityTypes |-> 0]

\* A summary that counts the six known types only.
CountType_KnownOnly(summary, type) ==
    IF type \in DOMAIN summary THEN [summary EXCEPT ![type] = @ + 1]
    ELSE summary

\* entity_summary[entity.type] = entity_summary.get(entity.type, 0) + 1
CountType(summary, type) ==
    IF type \in DOMAIN summary THEN [summary EXCEPT ![type] = @ + 1]
    ELSE summary @@ (type :> 1)

NoResponse == [status |-> "none"]

\* A response whose construction fails, which the outer handler answers with the
\* error response.
SuccessResponse_Raises(st) ==
    [status |-> "error", newsletter_id |-> st.nid,
     entities_extracted |-> Len(st.extracted_entities),
     entities_new |-> 0, entities_updated |-> 0,
     entity_summary |-> << >>, step |-> st.current_step,
     errors |-> Append(st.errors, "Pipeline error")]

\* NewsletterProcessingResponse(status="success", ...)
SuccessResponse(st) ==
    [status |-> "success", newsletter_id |-> st.nid,
     entities_extracted |-> Len(st.extracted_entities),
     entities_new |-> st.new_entities, entities_updated |-> st.updated_entities,
     entity_summary |-> st.entity_summary, step |-> st.current_step,
     errors |-> st.errors]

\* An error response that leaves the warnings behind.
ErrorResponse_NoErrors(st) ==
    [status |-> "error", newsletter_id |-> st.nid,
     entities_extracted |-> Len(st.extracted_entities),
     entities_new |-> 0, entities_updated |-> 0,
     entity_summary |-> << >>, step |-> st.current_step,
     errors |-> <<>>]

\* NewsletterProcessor._create_error_response
ErrorResponse(st) ==
    [status |-> "error", newsletter_id |-> st.nid,
     entities_extracted |-> Len(st.extracted_entities),
     entities_new |-> 0, entities_updated |-> 0,
     entity_summary |-> << >>, step |-> st.current_step,
     errors |-> st.errors]

\* datetime() in the statement instance r is executing.
Now(r) == <<r, run[r].served, run[r].i, run[r].pc>>

\* A NewsletterProcessor before initialize().
FreshRun ==
    [pc |-> "uninit", entity_extractor |-> FALSE, driver |-> FALSE,
     served |-> 0, nid |-> <<0, 0>>,
     \* of the call in hand: what cleaning did, whether there was an extractor,
     \* what the LLM gave, and whether every query so far returned rows
     clean |-> "none", had_extractor |-> FALSE, llm |-> "none", raw |-> <<>>,
     healthy |-> TRUE,
     \* of an extract_entities call made on the extractor by itself: whether it
     \* had an OpenAI client and whether it called the LLM
     had_client |-> TRUE, llm_called |-> FALSE,
     extracted_entities |-> <<>>, i |-> 1,
     new_entities |-> 0, updated_entities |-> 0, entity_summary |-> EmptySummary,
     errors |-> <<>>, current_step |-> "initialized", response |-> NoResponse]

\* The schema statements that matter to the labels the responses carry: the
\* others guard labels no candidate of RawPool has.
SchemaLabels == EntityTypes \cap { d.type : d \in RawPool }

\* NewsletterProcessor.initialize: the extractor, connect(), then the schema
\* statements, each of which may fail on its own and is then only logged.  A
\* connect() that fails can be tried again by a later initialize().
Initialize(r) ==
    /\ run[r].pc \in {"uninit", "done"}
    /\ ~ run[r].driver
    /\ \E connected \in BOOLEAN, made \in SUBSET SchemaLabels :
         IF connected
         THEN /\ constraints' = constraints \cup { t \in made : Unique(nodes, t) }
              /\ run' = [run EXCEPT ![r].pc = IF @ = "uninit" THEN "idle" ELSE @,
                                    ![r].entity_extractor = TRUE,
                                    ![r].driver = TRUE]
         ELSE /\ run' = [run EXCEPT ![r].entity_extractor = TRUE]
              /\ UNCHANGED constraints
    /\ UNCHANGED <<nodes, newsletters, edges, hist>>
    /\ UNCHANGED connVars
    /\ UNCHANGED appVars

\* What execute_query can give instance r: None without a driver handle, else
\* the rows or, when the query fails, None.
QueryOk(r) == IF run[r].driver THEN BOOLEAN ELSE {FALSE}

\* What clean_html_content (and extract_text_sections) may do.
CleanOutcomes == {"text", "empty", "raise"}

\* process_newsletter, steps 1 and 2: the Newsletter object with its fresh uuid,
\* clean_html_content and extract_entities.  An exception is caught by the outer
\* handler, which answers with the error response of the step reached.
Begin(r, pool, quota) ==
    /\ run[r].pc \in {"uninit", "idle", "done"}
    /\ run[r].served < quota
    /\ \E cleaned \in CleanOutcomes, resp \in ResponsesOf(pool) :
         LET st == [run[r] EXCEPT !.served = @ + 1, !.nid = <<r, run[r].served + 1>>,
                                  !.clean = cleaned, !.had_extractor = run[r].entity_extractor,
                                  !.llm = "none", !.raw = <<>>, !.healthy = TRUE,
                                  !.extracted_entities = <<>>, !.i = 1,
                                  !.new_entities = 0, !.updated_entities = 0,
                                  !.entity_summary = EmptySummary,
                                  !.errors = <<>>, !.response = NoResponse,
                                  !.current_step = "cleaning_html"]
             stopped(failed) == [failed EXCEPT !.pc = "done",
                                               !.response = ErrorResponse(failed)]
         IN  IF cleaned = "empty"
             THEN run' = [run EXCEPT ![r] =
                            stopped([st EXCEPT !.errors = <<"Failed to clean HTML content">>])]
             ELSE IF cleaned = "raise"
             THEN run' = [run EXCEPT ![r] =
                            stopped([st EXCEPT !.errors = <<"Pipeline error">>])]
             ELSE IF ~ run[r].entity_extractor
             THEN run' = [run EXCEPT ![r] =
                            stopped([st EXCEPT !.current_step = "extracting_entities",
                                               !.errors = <<"Entity extractor not initialized">>])]
             ELSE run' = [run EXCEPT ![r] =
                            [st EXCEPT !.pc = "newsletter",
                                       !.llm = resp.kind, !.raw = resp.entities,
                                       !.current_step = "creating_newsletter_node",
                                       !.extracted_entities = ExtractEntities(resp)]]
    /\ UNCHANGED <<nodes, newsletters, edges, constraints, hist>>
    /\ UNCHANGED connVars
    /\ UNCHANGED appVars

\* EntityExtractor.extract_entities called by itself, as its tests call it, on an
\* extractor that has a client or not and an LLM that would give resp.
extract_entities(r, has_client, resp) ==
    /\ run[r].pc = "uninit"
    /\ run[r].llm = "none"
    /\ resp.kind # "noclient"
    /\ LET ret == ExtractCall(has_client, resp)
       IN  run' = [run EXCEPT ![r].had_client = has_client,
                              ![r].llm = resp.kind, ![r].raw = resp.entities,
                              ![r].llm_called = ret.llm_called,
                              ![r].extracted_entities = ret.entities]
    /\ UNCHANGED <<nodes, newsletters, edges, constraints, hist>>
    /\ UNCHANGED connVars
    /\ UNCHANGED appVars

\* The request's Newsletter: what the model keeps of it is its fresh id.
RequestOf(nid) == Newsletter(nid, "subject", "sender", "date", 1)

\* A loop that links whatever the upsert gave.
NextPc_LinkAnyway(st, i) == "link"

\* Where the loop over state.extracted_entities goes next.
NextPc(st, i) == IF i > Len(st.extracted_entities) THEN "summary" ELSE "upsert"

\* Step 3: create_newsletter_node; execute_query gives None when the query fails.
CreateNewsletterNode(r) ==
    /\ run[r].pc = "newsletter"
    /\ \E ok \in QueryOk(r) :
         /\ newsletters' = IF ok THEN MergeNewsletter(newsletters, RequestOf(run[r].nid), Now(r))
                           ELSE newsletters
         /\ run' = [run EXCEPT ![r].pc = NextPc(run[r], 1),
                               ![r].current_step = "processing_entities",
                               ![r].healthy = ok,
                               ![r].errors = IF ok THEN @
                                             ELSE Append(@, "Failed to create newsletter node")]
    /\ UNCHANGED <<nodes, edges, constraints, hist>>
    /\ UNCHANGED connVars
    /\ UNCHANGED appVars

\* A loop body that counts every row as a new entity.
Counted_AllNew(st, operation) ==
    [st EXCEPT !.pc = "link", !.new_entities = @ + 1]

\* The loop body after create_or_update_entity returned a row.
Counted(st, operation) ==
    [st EXCEPT !.pc = "link",
               !.new_entities = IF operation = "created" THEN @ + 1 ELSE @,
               !.updated_entities = IF operation = "created" THEN @ ELSE @ + 1]

\* The record of an upsert that returned a row.
Upserted(h, entity, operation, fresh) ==
    [h EXCEPT ![KeyOf(entity)] =
        Append(@, [confidence |-> entity.confidence, operation |-> operation, fresh |-> fresh])]

\* Step 4, create_or_update_entity: the MERGE statement.  MERGE matches first; it
\* creates in the same atomic step only under a uniqueness constraint of the label,
\* which makes the store lock the key.  Without one the create is a later step.
UpsertEntity(r) ==
    /\ run[r].pc = "upsert"
    /\ LET entity == run[r].extracted_entities[run[r].i]
           matched == Matching(nodes, entity.type, entity.name)
       IN  \E ok \in QueryOk(r) :
             IF ~ ok
             THEN /\ run' = [run EXCEPT ![r].i = @ + 1, ![r].pc = NextPc(run[r], run[r].i + 1),
                                        ![r].healthy = FALSE]
                  /\ UNCHANGED <<nodes, hist>>
             ELSE IF matched # {}
             THEN /\ nodes' = MergeMatched(nodes, entity, Now(r))
                  /\ \E e \in Matching(nodes', entity.type, entity.name) :
                       /\ run' = [run EXCEPT ![r] = Counted(run[r], Operation(e))]
                       /\ hist' = Upserted(hist, entity, Operation(e), FALSE)
             ELSE IF entity.type \in constraints
             THEN /\ nodes' = MergeCreated(nodes, entity, Now(r))
                  /\ LET e == OnCreate(entity, Now(r))
                     IN  /\ run' = [run EXCEPT ![r] = Counted(run[r], Operation(e))]
                         /\ hist' = Upserted(hist, entity, Operation(e), TRUE)
             ELSE /\ run' = [run EXCEPT ![r].pc = "create"]
                  /\ UNCHANGED <<nodes, hist>>
    /\ UNCHANGED <<newsletters, edges, constraints>>
    /\ UNCHANGED connVars
    /\ UNCHANGED appVars

\* The create of a MERGE that matched nothing and holds no lock on the key.  A
\* uniqueness constraint made in the meantime refuses a second node of the key:
\* the query fails and execute_query gives None.
UpsertCreate(r) ==
    /\ run[r].pc = "create"
    /\ LET entity == run[r].extracted_entities[run[r].i]
           e == OnCreate(entity, Now(r))
       IN  IF entity.type \in constraints /\ Matching(nodes, entity.type, entity.name) # {}
           THEN /\ run' = [run EXCEPT ![r].i = @ + 1, ![r].pc = NextPc(run[r], run[r].i + 1),
                                      ![r].healthy = FALSE]
                /\ UNCHANGED <<nodes, hist>>
           ELSE /\ nodes' = MergeCreated(nodes, entity, Now(r))
                /\ run' = [run EXCEPT ![r] = Counted(run[r], Operation(e))]
                /\ hist' = Upserted(hist, entity, Operation(e), TRUE)
    /\ UNCHANGED <<newsletters, edges, constraints>>
    /\ UNCHANGED connVars
    /\ UNCHANGED appVars

\* Step 4, link_entity_to_newsletter (its result is not looked at), then the
\* summary count of the entity's type.
LinkEntity(r) ==
    /\ run[r].pc = "link"
    /\ LET entity == run[r].extracted_entities[run[r].i]
       IN  \E ok \in QueryOk(r) :
             /\ edges' = IF ok
                         THEN MergeMentionedIn(edges, nodes, newsletters, entity.type,
                                               entity.name, run[r].nid, entity.context, Now(r))
                         ELSE edges
             /\ run' = [run EXCEPT ![r].i = @ + 1,
                                   ![r].pc = NextPc(run[r], run[r].i + 1),
                                   ![r].entity_summary = CountType(@, entity.type),
                                   ![r].healthy = @ /\ ok]
    /\ UNCHANGED <<nodes, newsletters, constraints, hist>>
    /\ UNCHANGED connVars
    /\ UNCHANGED appVars

\* Step 5: the summary and the success response.
Finish(r) ==
    /\ run[r].pc = "summary"
    /\ LET st == [run[r] EXCEPT !.current_step = "generating_summary"]
       IN  run' = [run EXCEPT ![r] = [st EXCEPT !.pc = "done", !.response = SuccessResponse(st)]]
    /\ UNCHANGED <<nodes, newsletters, edges, constraints, hist>>
    /\ UNCHANGED connVars
    /\ UNCHANGED appVars


\* ------------------------------------------- retry_with_exponential_backoff
\* The exceptions a wrapped function raises.
Errors == {"E1", "E2"}

Min(a, b) == IF a <= b THEN a ELSE b

\* The decorator's arguments at its three uses: _create_neo4j_driver,
\* _test_connection, and a caller's own operation with max_retries n.
\* _create_neo4j_driver wrapped with five retries.
DriverPolicy_FiveRetries ==
    [func |-> "_create_neo4j_driver", max_retries |-> 5, initial_delay |-> 2,
     max_delay |-> 30, exponential_base |-> 2, jitter |-> TRUE]

DriverPolicy ==
    [func |-> "_create_neo4j_driver", max_retries |-> 3, initial_delay |-> 2,
     max_delay |-> 30, exponential_base |-> 2, jitter |-> TRUE]

TestPolicy ==
    [func |-> "_test_connection", max_retries |-> 2, initial_delay |-> 1,
     max_delay |-> 15, exponential_base |-> 2, jitter |-> TRUE]

OpPolicy(n, jitter) ==
    [func |-> "op", max_retries |-> n, initial_delay |-> 1,
     max_delay |-> 3, exponential_base |-> 2, jitter |-> jitter]

NoCall ==
    [pc |-> "idle", policy |-> OpPolicy(0, FALSE), attempt |-> 0, delay |-> 0,
     invocations |-> 0, sleeps |-> 0, slept |-> 0, errors |-> <<>>, raised |-> "none"]

\* A wrapper whose counter and delay outlive the call.
StartCall_Stateful(policy) ==
    [call EXCEPT !.pc = "try", !.policy = policy, !.raised = "none"]

\* wrapper(*args): attempt = 0, delay = initial_delay.
StartCall(policy) ==
    [NoCall EXCEPT !.pc = "try", !.policy = policy, !.delay = policy.initial_delay]

\* One attempt more than max_retries allows before the error is raised.
Exhausted_OneMore(attempt, max_retries) == attempt > max_retries + 1

\* if attempt > max_retries: raise
Exhausted(attempt, max_retries) == attempt > max_retries

\* A delay that grows without the cap.
NextDelay_Uncapped(delay, policy) == delay * policy.exponential_base

\* delay = min(delay * exponential_base, max_delay)
NextDelay(delay, policy) == Min(delay * policy.exponential_base, policy.max_delay)

\* jitter_delay, in tenths of a second: delay * (0.5 + random.random() * 0.5), with
\* random.random() in [0, 1), or the delay itself.
JitterDelays(delay, jitter) ==
    IF jitter THEN {5 * delay, 7 * delay, 10 * delay - 1} ELSE {10 * delay}

\* One turn of the wrapper's while loop: the function is called; it returns, or
\* it raises and the wrapper re-raises or sleeps.
Attempt(c, outcome, jitter_delay) ==
    LET called == [c EXCEPT !.invocations = @ + 1]
    IN  IF outcome = "ok" THEN [called EXCEPT !.pc = "returned"]
        ELSE LET failed == [called EXCEPT !.attempt = @ + 1, !.errors = Append(@, outcome)]
             IN  IF Exhausted(failed.attempt, c.policy.max_retries)
                 THEN [failed EXCEPT !.pc = "raised", !.raised = outcome]
                 ELSE [failed EXCEPT !.delay = NextDelay(c.delay, c.policy),
                                     !.sleeps = @ + 1, !.slept = jitter_delay]

\* A turn of the loop of the running call.
RetryAttempt ==
    /\ call.pc = "try"
    /\ \E outcome \in {"ok"} \cup Errors :
         \E jitter_delay \in JitterDelays(NextDelay(call.delay, call.policy), call.policy.jitter) :
           call' = Attempt(call, outcome, jitter_delay)
    /\ UNCHANGED <<client, open_drivers>>
    /\ UNCHANGED pipeVars
    /\ UNCHANGED appVars

\* Two callers of one wrapped function, each call in a frame of its own: call is
\* the first caller's, wrapped.frame the second's; finished lists how the calls
\* that are over ended.
NewWrapped == [frame |-> NoCall, finished |-> <<>>]

\* The decorator's arguments of the function the two callers call.
WrappedPolicies == { OpPolicy(MaxRetries, jitter) : jitter \in BOOLEAN }

Finished(c, finished) == IF c.pc = "idle" THEN finished ELSE Append(finished, c.pc)

\* The first caller calls the function: wrapper(*args) begins.
WrapperCall ==
    /\ call.pc # "try"
    /\ Len(wrapped.finished) < MaxWrapped
    /\ \E policy \in WrappedPolicies :
         /\ call' = StartCall(policy)
         /\ wrapped' = [wrapped EXCEPT !.finished = Finished(call, @)]
    /\ UNCHANGED <<client, open_drivers, service>>
    /\ UNCHANGED pipeVars

\* The second caller calls it, whether or not the first one's call is over.
ConcurrentCall ==
    /\ wrapped.frame.pc # "try"
    /\ Len(wrapped.finished) < MaxWrapped
    /\ \E policy \in WrappedPolicies :
         wrapped' = [frame |-> StartCall(policy),
                     finished |-> Finished(wrapped.frame, wrapped.finished)]
    /\ UNCHANGED <<client, call, open_drivers, service>>
    /\ UNCHANGED pipeVars

\* A turn of the loop of the second caller's call.
ConcurrentAttempt ==
    /\ wrapped.frame.pc = "try"
    /\ \E outcome \in {"ok"} \cup Errors :
         \E jitter_delay \in JitterDelays(NextDelay(wrapped.frame.delay, wrapped.frame.policy),
                                          wrapped.frame.policy.jitter) :
           wrapped' = [wrapped EXCEPT !.frame = Attempt(wrapped.frame, outcome, jitter_delay)]
    /\ UNCHANGED <<client, call, open_drivers, service>>
    /\ UNCHANGED pipeVars

\* The client's caller calls a retry-wrapped operation of its own, between two
\* calls of the client.
CallOp ==
    /\ client.pc = "idle"
    /\ call.pc # "try"
    /\ \E n \in 0..MaxRetries, jitter \in BOOLEAN :
         call' = StartCall(OpPolicy(n, jitter))
    /\ UNCHANGED <<client, open_drivers>>
    /\ UNCHANGED pipeVars
    /\ UNCHANGED appVars

\* -------------------------------------------------------- Neo4jClient
\* Neo4jClient.__init__
\* No execute_query yet.  A query's record keeps what the client was when it was
\* called: what its last connect() returned and whether its driver was open.
NoQuery == [connect_result |-> "none", open |-> FALSE, via_driver |-> FALSE, result |-> "none"]

\* No find_similar_entities yet.
NoFind == [called |-> FALSE, ok |-> FALSE, search_term |-> <<>>, entity_type |-> "none",
           result |-> <<>>]

\* No health_info yet, and no reconnect_if_needed yet.
NoHealth == [has_driver |-> FALSE, is_healthy |-> FALSE]

NoReconnect == [health |-> NoHealth, had |-> 0, reconnected |-> FALSE]

NewClient ==
    [driver |-> 0, pc |-> "idle", trace |-> <<>>, result |-> "none",
     last_connection_error |-> "none", connection_attempts |-> 0, connects |-> 0,
     closes |-> 0, releases |-> <<>>, query |-> NoQuery,
     \* the direct create_newsletter_node calls: how many, and those that
     \* returned the node, each with the instant of its statement
     statements |-> 0, merged |-> <<>>,
     \* the direct setup_constraints_and_indexes calls: how many, and the
     \* statements the last one executed, each with its outcome
     setups |-> 0, attempted |-> <<>>,
     \* the direct get_connection_health calls and the last health_info; the
     \* reconnect_if_needed calls and what the last one saw and did
     healths |-> 0, health |-> NoHealth,
     reconnects |-> 0, reconnect |-> NoReconnect,
     \* the last find_similar_entities call and what it returned
     found |-> NoFind]

Phase(name, outcome) == [phase |-> name, outcome |-> outcome]

\* The last phase of the trace ended.
Ended(trace, outcome) == [trace EXCEPT ![Len(trace)].outcome = outcome]

\* connect(): socket.getaddrinfo.  A gaierror returns False; any other exception
\* reaches the outer handler.
DnsPhase(cl, outcome) ==
    LET c == [cl EXCEPT !.connects = @ + 1, !.result = "none",
                        !.trace = <<Phase("dns", IF outcome = "ok" THEN "ok" ELSE "failed")>>]
    IN  IF outcome = "ok" THEN [c EXCEPT !.pc = "tcp"]
        ELSE IF outcome = "gaierror" THEN [c EXCEPT !.result = "False"]
        ELSE [c EXCEPT !.result = "False", !.last_connection_error = "other",
                       !.connection_attempts = @ + 1]

ConnectDns ==
    /\ client.pc = "idle"
    /\ call.pc # "try"
    /\ client.connects < MaxConnects
    /\ \E outcome \in {"ok", "gaierror", "other"} : client' = DnsPhase(client, outcome)
    /\ UNCHANGED <<call, open_drivers>>
    /\ UNCHANGED pipeVars
    /\ UNCHANGED appVars

\* A connect() that goes on to the driver after a failed TCP probe.
ConnectTcp_IgnoresFailure ==
    /\ client.pc = "tcp"
    /\ \E ok \in BOOLEAN :
         /\ client' = [client EXCEPT !.pc = "driver",
                          !.trace = Append(@, Phase("tcp", IF ok THEN "ok" ELSE "failed"))
                                       \o <<Phase("driver", "running")>>]
         /\ call' = StartCall(DriverPolicy)
    /\ UNCHANGED open_drivers
    /\ UNCHANGED pipeVars
    /\ UNCHANGED appVars

\* connect(): the TCP probe, then the call of the wrapped _create_neo4j_driver.
ConnectTcp ==
    /\ client.pc = "tcp"
    /\ \E ok \in BOOLEAN :
         IF ok
         THEN /\ client' = [client EXCEPT !.pc = "driver",
                               !.trace = Append(@, Phase("tcp", "ok"))
                                            \o <<Phase("driver", "running")>>]
              /\ call' = StartCall(DriverPolicy)
         ELSE /\ client' = [client EXCEPT !.pc = "idle", !.result = "False",
                               !.trace = Append(@, Phase("tcp", "failed"))]
              /\ UNCHANGED call
    /\ UNCHANGED open_drivers
    /\ UNCHANGED pipeVars
    /\ UNCHANGED appVars

\* connect(): self.driver = self._create_neo4j_driver(), then the call of the
\* wrapped _test_connection; or the wrapper raised.
ConnectDriver ==
    /\ client.pc = "driver"
    /\ call.pc \in {"returned", "raised"}
    /\ IF call.pc = "returned"
       THEN /\ client' = [client EXCEPT !.pc = "test", !.driver = client.connects,
                             !.trace = Ended(@, "ok") \o <<Phase("test", "running")>>]
            /\ open_drivers' = open_drivers \cup {client.connects}
            /\ call' = StartCall(TestPolicy)
       ELSE /\ client' = [client EXCEPT !.pc = "idle", !.result = "False",
                             !.last_connection_error = call.raised,
                             !.trace = Ended(@, "failed")]
            /\ call' = NoCall
            /\ UNCHANGED open_drivers
    /\ UNCHANGED pipeVars
    /\ UNCHANGED appVars

\* connect(): the test query returned a record, or its wrapper raised.
ConnectTest ==
    /\ client.pc = "test"
    /\ call.pc \in {"returned", "raised"}
    /\ client' =
         IF call.pc = "returned"
         THEN [client EXCEPT !.pc = "idle", !.result = "True", !.trace = Ended(@, "ok")]
         ELSE [client EXCEPT !.pc = "idle", !.result = "False",
                             !.last_connection_error = call.raised,
                             !.trace = Ended(@, "failed")]
    /\ call' = NoCall
    /\ UNCHANGED open_drivers
    /\ UNCHANGED pipeVars
    /\ UNCHANGED appVars

\* driver.close(): the pool of the driver object is released.
DriverClose(open, d) == open \ {d}

\* Neo4jClient.close: `if self.driver: self.driver.close()`; self.driver is left as
\* it is.
Close ==
    /\ client.pc = "idle"
    /\ call.pc # "try"
    /\ client.closes < MaxCloses
    /\ IF client.driver # 0
       THEN /\ open_drivers' = DriverClose(open_drivers, client.driver)
            /\ client' = [client EXCEPT !.closes = @ + 1,
                                        !.releases = Append(@, client.driver)]
       ELSE /\ client' = [client EXCEPT !.closes = @ + 1]
            /\ UNCHANGED open_drivers
    /\ UNCHANGED call
    /\ UNCHANGED pipeVars
    /\ UNCHANGED appVars

\* What driver.session(...).run(...) of a query can do: give rows, or raise; a
\* closed driver can only raise.
SessionOutcomes(c) ==
    IF c.driver \in open_drivers THEN {"rows", "raise"} ELSE {"raise"}

\* Neo4jClient.execute_query: None at once when self.driver is not set; else the
\* query goes to a session of the driver, and an exception of it becomes None.
ExecuteQuery ==
    /\ client.pc = "idle"
    /\ call.pc # "try"
    /\ IF client.driver = 0
       THEN client' = [client EXCEPT !.query =
                          [connect_result |-> client.result, open |-> FALSE,
                           via_driver |-> FALSE, result |-> "None"]]
       ELSE \E outcome \in SessionOutcomes(client) :
              client' = [client EXCEPT !.query =
                            [connect_result |-> client.result,
                             open |-> client.driver \in open_drivers,
                             via_driver |-> TRUE,
                             result |-> IF outcome = "rows" THEN "rows" ELSE "None"]]
    /\ UNCHANGED <<call, open_drivers>>
    /\ UNCHANGED pipeVars
    /\ UNCHANGED appVars

\* get_connection_health: has_driver, and driver_info.is_healthy from a test
\* query on a session of the driver.
HealthInfo(c, outcome) ==
    [has_driver |-> c.driver # 0, is_healthy |-> c.driver # 0 /\ outcome = "rows"]

\* Neo4jClient.get_connection_health, called by the client's user.
GetConnectionHealth ==
    /\ client.pc = "idle"
    /\ call.pc # "try"
    /\ client.healths < MaxHealths
    /\ \E outcome \in SessionOutcomes(client) :
         client' = [client EXCEPT !.healths = @ + 1, !.health = HealthInfo(client, outcome)]
    /\ UNCHANGED <<call, open_drivers>>
    /\ UNCHANGED pipeVars
    /\ UNCHANGED appVars

\* A reconnect_if_needed that reconnects whatever the health is.
NeedsReconnect_Always(health) == TRUE

\* if not health["has_driver"] or not health["driver_info"]["is_healthy"]
NeedsReconnect(health) == ~ health.has_driver \/ ~ health.is_healthy

\* Neo4jClient.reconnect_if_needed: the health check; True when healthy; else
\* the driver is closed and cleared and connect() begins with its DNS phase.
\* The call returns what that connect() returns.
ReconnectIfNeeded ==
    /\ client.pc = "idle"
    /\ call.pc # "try"
    /\ client.reconnects < MaxReconnects
    /\ client.connects < MaxConnects
    /\ \E outcome \in SessionOutcomes(client), dns \in {"ok", "gaierror", "other"} :
         LET health == HealthInfo(client, outcome)
             seen == [client EXCEPT !.reconnects = @ + 1, !.health = health]
         IN  IF NeedsReconnect(health)
             THEN /\ open_drivers' = IF client.driver # 0
                                     THEN DriverClose(open_drivers, client.driver)
                                     ELSE open_drivers
                  /\ client' = DnsPhase(
                        [seen EXCEPT !.driver = 0,
                                     !.releases = IF client.driver # 0
                                                  THEN Append(@, client.driver) ELSE @,
                                     !.reconnect = [health |-> health, had |-> client.driver,
                                                    reconnected |-> TRUE]],
                        dns)
             ELSE /\ client' = [seen EXCEPT !.reconnect = [health |-> health,
                                                            had |-> client.driver,
                                                            reconnected |-> FALSE]]
                  /\ UNCHANGED open_drivers
    /\ UNCHANGED call
    /\ UNCHANGED pipeVars
    /\ UNCHANGED appVars

\* What the last reconnect_if_needed returned or, while its connect() runs, "none".
ReconnectResult(c) ==
    IF c.reconnect.reconnected THEN c.result ELSE "True"

\* ------------------------------------------------ find_similar_entities
\* LIMIT 10
SIMILAR_LIMIT == 10

\* Cypher's CONTAINS on strings, which are sequences of letters here.
Contains(str, sub) ==
    \E k \in 0..(Len(str) - Len(sub)) : SubSeq(str, k + 1, k + Len(sub)) = sub

\* WHERE e.name CONTAINS $search_term
\*    OR ANY(alias IN e.aliases WHERE alias CONTAINS $search_term)
\*    OR $search_term CONTAINS e.name
SimilarTo(e, search_term) ==
    \/ Contains(e.name, search_term)
    \/ \E alias \in e.aliases : Contains(alias, search_term)
    \/ Contains(search_term, e.name)

\* ORDER BY popularity DESC, confidence DESC
RanksBefore(a, b) ==
    \/ a.mention_count > b.mention_count
    \/ a.mention_count = b.mention_count /\ a.confidence > b.confidence

RECURSIVE Ordered(_)
Ordered(rows) ==
    IF rows = {} THEN <<>>
    ELSE LET first == CHOOSE a \in rows : \A b \in rows \ {a} : ~ RanksBefore(b, a)
         IN  <<first>> \o Ordered(rows \ {first})

\* The rows of the query: MATCH, WHERE, ORDER BY, LIMIT.
SimilarRows(g, search_term, entity_type) ==
    LET rows == Ordered({ e \in g : e.type = entity_type /\ SimilarTo(e, search_term) })
    IN  SubSeq(rows, 1, Min(Len(rows), SIMILAR_LIMIT))

\* A node as an upsert history leaves it, with its name and aliases spelled out.
NamedNode(type, name, aliases, mention_count, confidence) ==
    [id |-> <<type, name>>, type |-> type, name |-> name, aliases |-> aliases,
     mention_count |-> mention_count, confidence |-> confidence]

\* The nodes a graph searched for similar names may hold: no two of them equal
\* in both mention_count and confidence, so that ORDER BY decides their order.
FindPool ==
    { NamedNode("Organization", <<"a", "b">>, {}, 12, 9),
      NamedNode("Organization", <<"a", "b", "c">>, {}, 11, 9),
      NamedNode("Organization", <<"c", "a", "b">>, {}, 10, 9),
      NamedNode("Organization", <<"a">>, {}, 9, 9),
      NamedNode("Organization", <<"b">>, {}, 9, 8),
      NamedNode("Organization", <<"a", "b", "a">>, {}, 8, 7),
      NamedNode("Organization", <<"b", "a", "b">>, {}, 7, 9),
      NamedNode("Organization", <<"a", "a", "b">>, {}, 6, 9),
      NamedNode("Organization", <<"a", "b", "b">>, {}, 5, 9),
      NamedNode("Organization", <<"c", "c">>, {<<"a", "b", "c">>}, 4, 9),
      NamedNode("Organization", <<"a", "b", "a", "b">>, {}, 3, 8),
      NamedNode("Organization", <<"c", "b">>, {<<"a">>}, 2, 10),
      NamedNode("Organization", <<"b", "b">>, {}, 1, 9),
      NamedNode("Person", <<"a", "b">>, {}, 1, 9) }

\* The names searched for.
SearchTerms == { <<"a", "b">>, <<"a", "b", "c">> }

\* Graphs of FindPool: most of its nodes, so that a search can meet the limit.
FindGraphs == { g \in SUBSET FindPool : Cardinality(g) >= Cardinality(FindPool) - 2 }

\* Neo4jClient.find_similar_entities: the rows, or [] when execute_query gave None.
find_similar_entities(entity_name, entity_type) ==
    /\ client.pc = "idle"
    /\ \E ok \in (IF client.driver = 0 THEN {FALSE} ELSE BOOLEAN) :
         client' = [client EXCEPT !.found =
                       [called |-> TRUE, ok |-> ok, search_term |-> entity_name,
                        entity_type |-> entity_type,
                        result |-> IF ok THEN SimilarRows(nodes, entity_name, entity_type)
                                   ELSE <<>>]]
    /\ UNCHANGED <<call, open_drivers>>
    /\ UNCHANGED pipeVars
    /\ UNCHANGED appVars

\* The names of constraints_and_indexes, in the order of the list.
SchemaStatements ==
    <<"unique_org_name", "unique_person_name", "unique_product_name", "unique_event_name",
      "unique_location_name", "unique_topic_name", "unique_newsletter_id",
      "newsletter_date_idx", "entity_confidence_idx", "entity_last_seen_idx">>

\* What a statement makes: the uniqueness constraint of a label, named by the
\* label, or an index, named by itself.
SchemaObjects ==
    <<"Organization", "Person", "Product", "Event", "Location", "Topic", "Newsletter",
      "newsletter_date_idx", "entity_confidence_idx", "entity_last_seen_idx">>

\* The statements that fail in one call.
FailingSets == { f \in SUBSET DOMAIN SchemaStatements : Cardinality(f) <= MaxFailures }

\* CREATE ... IF NOT EXISTS through execute_query: the object is there afterwards
\* unless the query failed or the data does not allow the constraint.
StatementOk(i, failing, g) ==
    /\ i \notin failing
    /\ SchemaObjects[i] \in EntityTypes => Unique(g, SchemaObjects[i])

\* A loop that gives up at the first statement that fails.
RECURSIVE SetupFrom_StopsAtFailure(_, _, _, _, _)
SetupFrom_StopsAtFailure(i, failing, g, schema, attempted) ==
    IF i > Len(SchemaStatements) THEN [schema |-> schema, attempted |-> attempted]
    ELSE LET ok == StatementOk(i, failing, g)
             done == Append(attempted, [statement |-> SchemaStatements[i], ok |-> ok])
         IN  IF ok THEN SetupFrom_StopsAtFailure(i + 1, failing, g, schema \cup {SchemaObjects[i]}, done)
             ELSE [schema |-> schema, attempted |-> done]

\* `for constraint in constraints_and_indexes`: each statement goes through
\* execute_query, which gives None when it fails, and the loop goes on.
RECURSIVE SetupFrom(_, _, _, _, _)
SetupFrom(i, failing, g, schema, attempted) ==
    IF i > Len(SchemaStatements) THEN [schema |-> schema, attempted |-> attempted]
    ELSE LET ok == StatementOk(i, failing, g)
         IN  SetupFrom(i + 1, failing, g,
                       IF ok THEN schema \cup {SchemaObjects[i]} ELSE schema,
                       Append(attempted, [statement |-> SchemaStatements[i], ok |-> ok]))

\* Neo4jClient.setup_constraints_and_indexes: nothing without a driver, else the
\* loop over the statements.
setup_constraints_and_indexes(failing) ==
    /\ client.pc = "idle"
    /\ client.setups < MaxSetups
    /\ IF client.driver = 0
       THEN /\ client' = [client EXCEPT !.setups = @ + 1, !.attempted = <<>>]
            /\ UNCHANGED constraints
       ELSE LET ret == SetupFrom(1, failing, nodes, constraints, <<>>)
            IN  /\ constraints' = ret.schema
                /\ client' = [client EXCEPT !.setups = @ + 1, !.attempted = ret.attempted]
    /\ UNCHANGED <<nodes, newsletters, edges, run, hist, call, open_drivers>>
    /\ UNCHANGED appVars

\* Newsletters a caller of the client passes: two of one id that differ in every
\* other field, and one of another id.
NewsletterPool ==
    { Newsletter(<<0, 1>>, "subject1", "sender1", "date1", 1),
      Newsletter(<<0, 1>>, "subject2", "sender2", "date2", 2),
      Newsletter(<<0, 2>>, "subject1", "sender1", "date1", 1) }

\* Neo4jClient.create_newsletter_node, called on the client by itself: the MERGE
\* runs and the node is returned, or execute_query gives None.
create_newsletter_node(newsletter) ==
    /\ client.statements < MaxStatements
    /\ LET now == <<0, client.statements + 1>>
       IN  \E ok \in BOOLEAN :
             IF ok
             THEN /\ newsletters' = MergeNewsletter(newsletters, newsletter, now)
                  /\ client' = [client EXCEPT !.statements = @ + 1,
                                              !.merged = Append(@, [newsletter |-> newsletter,
                                                                   at |-> now])]
             ELSE /\ client' = [client EXCEPT !.statements = @ + 1]
                  /\ UNCHANGED newsletters
    /\ UNCHANGED <<nodes, edges, constraints, run, hist, call, open_drivers>>
    /\ UNCHANGED appVars

\* ------------------------------------------------------------ the app
\* No answer of an endpoint yet.
NoHttp == [status_code |-> 0, body |-> <<>>]

\* main.py as imported: shutdown_event = False.  health and stats are the last
\* answers of the two endpoints, health_log the status codes of /health so far.
NewService ==
    [shutdown_event |-> FALSE, health_log |-> <<>>, health |-> NoHttp,
     stats_calls |-> 0, stats |-> NoHttp,
     \* routers/newsletter.py as imported: initialized = False, no processor.
     \* processors counts the NewsletterProcessor objects built, failed_inits
     \* those whose initialize() returned False, shutdowns the shutdowns of one;
     \* pending is the endpoint that is past ensure_initialized(), answered the
     \* process requests answered, process the last answer of the endpoint.
     initialized |-> FALSE, processors |-> 0, failed_inits |-> 0, shutdowns |-> 0,
     pending |-> "none", answered |-> 0, process |-> NoHttp]

\* NewsletterProcessor(config) followed by initialize(), which makes the
\* extractor and returns what connect() returned.  The ids of the newsletters go
\* on from those of the processor before.
NewProcessor(st, connected) ==
    [FreshRun EXCEPT !.served = st.served,
                     !.entity_extractor = TRUE,
                     !.driver = connected,
                     !.pc = IF connected THEN "idle" ELSE "uninit"]

\* A flag that is set whatever initialize() returned.
FlagAfterInitialize_Always(returned) == TRUE

\* if processor.initialize(): initialized = True
FlagAfterInitialize(returned) == returned

\* The 503 of ensure_initialized.
InitializationFailed ==
    [status_code |-> 503, body |-> [detail |-> "Newsletter processor initialization failed"]]

\* ensure_initialized(): nothing when the flag is set; else a new processor is
\* built and initialized, and the flag is set when that returned True.  ok is
\* whether the endpoint goes on, built whether a processor was built.
EnsureInitialized(svc, st, connected) ==
    IF svc.initialized
    THEN [service |-> svc, run |-> st, ok |-> TRUE, built |-> FALSE]
    ELSE [service |-> [svc EXCEPT !.processors = @ + 1,
                                  !.initialized = FlagAfterInitialize(connected),
                                  !.failed_inits = IF connected THEN @ ELSE @ + 1],
          run |-> NewProcessor(st, connected), ok |-> connected, built |-> TRUE]

\* The schema after ensure_initialized(): a processor whose connect() returned
\* True ran the schema statements.
SchemaAfter(e, made, g, schema) ==
    IF e.built /\ e.ok THEN schema \cup { t \in made : Unique(g, t) } ELSE schema

\* The columns of the row stats_query returns.
StatsKeys ==
    {"organizations", "people", "products", "events", "locations", "topics",
     "newsletters", "relationships"}

CountLabel(g, type) == Cardinality({ n \in g : n.type = type })

\* Neo4jClient.get_graph_stats: the one row of counts, or {} when execute_query
\* gave None.
GraphStats(ok, g, ns, es) ==
    IF ok
    THEN [organizations |-> CountLabel(g, "Organization"),
          people        |-> CountLabel(g, "Person"),
          products      |-> CountLabel(g, "Product"),
          events        |-> CountLabel(g, "Event"),
          locations     |-> CountLabel(g, "Location"),
          topics        |-> CountLabel(g, "Topic"),
          newsletters   |-> Cardinality(ns),
          relationships |-> Cardinality(es)]
    ELSE <<>>

\* GET /newsletter/stats: ensure_initialized(), which answers 503 when a
\* processor it built did not initialize, then the stats as returned.
get_graph_stats(r) ==
    /\ service.pending = "none"
    /\ run[r].pc \in {"uninit", "idle", "done"}
    /\ service.stats_calls < MaxStatsCalls
    /\ service.initialized \/ service.processors < MaxProcessors
    /\ \E connected \in BOOLEAN, made \in SUBSET SchemaLabels, ok \in BOOLEAN :
         LET e == EnsureInitialized(service, run[r], connected)
         IN  /\ run' = [run EXCEPT ![r] = e.run]
             /\ constraints' = SchemaAfter(e, made, nodes, constraints)
             /\ service' = [e.service EXCEPT
                    !.stats_calls = @ + 1,
                    !.stats = IF e.ok
                              THEN [status_code |-> 200,
                                    body |-> GraphStats(ok, nodes, newsletters, edges)]
                              ELSE InitializationFailed]
    /\ UNCHANGED <<nodes, newsletters, edges, hist, wrapped>>
    /\ UNCHANGED connVars

\* POST /newsletter/process, up to the call of the processor: ensure_initialized(),
\* whose 503 ends the request.
process_newsletter ==
    /\ service.pending = "none"
    /\ run[1].pc \in {"uninit", "idle", "done"}
    /\ run[1].served < MaxAppNewsletters
    /\ service.initialized \/ service.processors < MaxProcessors
    /\ \E connected \in BOOLEAN, made \in SUBSET SchemaLabels :
         LET e == EnsureInitialized(service, run[1], connected)
         IN  /\ run' = [run EXCEPT ![1] = e.run]
             /\ constraints' = SchemaAfter(e, made, nodes, constraints)
             /\ service' = IF e.ok THEN [e.service EXCEPT !.pending = "process"]
                           ELSE [e.service EXCEPT !.process = InitializationFailed]
    /\ UNCHANGED <<nodes, newsletters, edges, hist, wrapped>>
    /\ UNCHANGED connVars

\* response = processor.process_newsletter(request): the pipeline begins.
ProcessorCall ==
    /\ service.pending = "process"
    /\ run[1].served = service.answered
    /\ Begin(1, ValidPool, MaxAppNewsletters)

\* The endpoint's answer: 422 for a response of status error, else the response.
ProcessAnswer ==
    /\ service.pending = "process"
    /\ run[1].pc = "done"
    /\ run[1].served = service.answered + 1
    /\ service' = [service EXCEPT
           !.pending = "none",
           !.answered = @ + 1,
           !.process = IF run[1].response.status = "error"
                       THEN [status_code |-> 422,
                             body |-> [message |-> "Newsletter processing failed",
                                       errors |-> run[1].response.errors]]
                       ELSE [status_code |-> 200, body |-> run[1].response]]
    /\ UNCHANGED wrapped
    /\ UNCHANGED pipeVars
    /\ UNCHANGED connVars

\* shutdown_processor: processor.shutdown() and initialized = False, when the
\* flag is set.  The processor is left as it is, closed.
shutdown_processor ==
    /\ service.pending = "none"
    /\ service' = IF service.initialized
                  THEN [service EXCEPT !.initialized = FALSE, !.shutdowns = @ + 1]
                  ELSE service
    /\ UNCHANGED wrapped
    /\ UNCHANGED pipeVars
    /\ UNCHANGED connVars

\* signal_handler, registered for SIGTERM and SIGINT.
signal_handler ==
    /\ service' = [service EXCEPT !.shutdown_event = TRUE]
    /\ UNCHANGED wrapped
    /\ UNCHANGED pipeVars
    /\ UNCHANGED connVars

\* A /health that does not look at the flag.
HealthResponse_AlwaysHealthy(shutdown_event) ==
    [status_code |-> 200, body |-> [status |-> "healthy", service |-> "fastapi-cloud-run"]]

\* health_check: 503 once shutdown_event is set, else the default 200.
HealthResponse(shutdown_event) ==
    IF shutdown_event
    THEN [status_code |-> 503,
          body |-> [status |-> "unhealthy", message |-> "Service is shutting down"]]
    ELSE [status_code |-> 200,
          body |-> [status |-> "healthy", service |-> "fastapi-cloud-run"]]

\* GET /health.
health_check ==
    /\ Len(service.health_log) < MaxHealthChecks
    /\ LET response == HealthResponse(service.shutdown_event)
       IN  service' = [service EXCEPT !.health = response,
                                      !.health_log = Append(@, response.status_code)]
    /\ UNCHANGED wrapped
    /\ UNCHANGED pipeVars
    /\ UNCHANGED connVars

\* ------------------------------------------------------- specifications
InitStore ==
    /\ nodes = {}
    /\ newsletters = {}
    /\ edges = {}
    /\ constraints = {}
    /\ run = [r \in Runs |-> FreshRun]
    /\ hist = [k \in Keys |-> <<>>]
    /\ client = NewClient
    /\ call = NoCall
    /\ open_drivers = {}
    /\ service = NewService
    /\ wrapped = NewWrapped

Init == InitStore

\* A client after a connect() that returned True.
ConnectedClient ==
    [NewClient EXCEPT !.driver = 1, !.result = "True", !.connects = 1,
                      !.trace = <<Phase("dns", "ok"), Phase("tcp", "ok"),
                                  Phase("driver", "ok"), Phase("test", "ok")>>]

\* A graph of named nodes and a client that is connected or never was.
InitFind ==
    /\ nodes \in FindGraphs
    /\ newsletters = {}
    /\ edges = {}
    /\ constraints = {}
    /\ run = [r \in Runs |-> FreshRun]
    /\ hist = [k \in Keys |-> <<>>]
    /\ \/ client = NewClient /\ open_drivers = {}
       \/ client = ConnectedClient /\ open_drivers = {1}
    /\ call = NoCall
    /\ service = NewService
    /\ wrapped = NewWrapped

\* The store and a client that is connected or never was.
InitSchema ==
    /\ nodes = {}
    /\ newsletters = {}
    /\ edges = {}
    /\ constraints = {}
    /\ run = [r \in Runs |-> FreshRun]
    /\ hist = [k \in Keys |-> <<>>]
    /\ \/ client = NewClient /\ open_drivers = {}
       \/ client = ConnectedClient /\ open_drivers = {1}
    /\ call = NoCall
    /\ service = NewService
    /\ wrapped = NewWrapped

\* Two service instances on one store, one newsletter each.
Next ==
    \E r \in Runs :
        \/ Initialize(r)
        \/ Begin(r, SharedPool, MaxShared)
        \/ CreateNewsletterNode(r)
        \/ UpsertEntity(r)
        \/ UpsertCreate(r)
        \/ LinkEntity(r)
        \/ Finish(r)

Spec == Init /\ [][Next]_vars

\* One service instance, newsletter after newsletter, any response of RawPool.
NextSeq ==
    \/ Initialize(1)
    \/ Begin(1, RawPool, MaxNewsletters)
    \/ CreateNewsletterNode(1)
    \/ UpsertEntity(1)
    \/ UpsertCreate(1)
    \/ LinkEntity(1)
    \/ Finish(1)

SpecSeq == Init /\ [][NextSeq]_vars

\* One service instance, newsletter after newsletter, responses of valid candidates.
NextPipe ==
    \/ Initialize(1)
    \/ Begin(1, ValidPool, MaxNewsletters)
    \/ CreateNewsletterNode(1)
    \/ UpsertEntity(1)
    \/ UpsertCreate(1)
    \/ LinkEntity(1)
    \/ Finish(1)

SpecPipe == Init /\ [][NextPipe]_vars

\* One client: its connect() calls, and a caller's retry-wrapped operation.
NextConn ==
    \/ ConnectDns
    \/ ConnectTcp
    \/ ConnectDriver
    \/ ConnectTest
    \/ CallOp
    \/ RetryAttempt
    \/ Close
    \/ ExecuteQuery

SpecConn == Init /\ [][NextConn]_vars

\* The extractor by itself, on any response of ExtractPool.
NextExtract ==
    \E has_client \in BOOLEAN, resp \in ResponsesUpTo(ExtractPool, MaxExtract) :
        extract_entities(1, has_client, resp)

SpecExtract == Init /\ [][NextExtract]_vars

\* The service: newsletters processed, the stats and health endpoints, and the
\* signals.
NextApp ==
    \/ process_newsletter
    \/ ProcessorCall
    \/ CreateNewsletterNode(1)
    \/ UpsertEntity(1)
    \/ UpsertCreate(1)
    \/ LinkEntity(1)
    \/ Finish(1)
    \/ ProcessAnswer
    \/ get_graph_stats(1)
    \/ shutdown_processor
    \/ signal_handler
    \/ health_check

SpecApp == Init /\ [][NextApp]_vars

\* One client and its connect() calls, each of which goes on once begun: its
\* phases and the turns of the wrapper's loop are the statements of one thread.
NextConnect ==
    \/ ConnectDns
    \/ ConnectTcp
    \/ ConnectDriver
    \/ ConnectTest
    \/ RetryAttempt

SpecConnect ==
    /\ Init
    /\ [][NextConnect]_vars
    /\ WF_vars(ConnectTcp)
    /\ WF_vars(ConnectDriver)
    /\ WF_vars(ConnectTest)
    /\ WF_vars(RetryAttempt)

\* One client: connect(), close(), the health check and reconnect_if_needed.
NextReconn ==
    \/ ConnectDns
    \/ ConnectTcp
    \/ ConnectDriver
    \/ ConnectTest
    \/ RetryAttempt
    \/ Close
    \/ GetConnectionHealth
    \/ ReconnectIfNeeded

SpecReconn == Init /\ [][NextReconn]_vars

\* One client whose caller looks for similar entities.
NextFind ==
    \E entity_name \in SearchTerms, entity_type \in {"Organization", "Person"} :
        find_similar_entities(entity_name, entity_type)

SpecFind == InitFind /\ [][NextFind]_vars

\* One retry-wrapped function and two callers of it.
NextRetry ==
    \/ WrapperCall
    \/ RetryAttempt
    \/ ConcurrentCall
    \/ ConcurrentAttempt

SpecRetry == Init /\ [][NextRetry]_vars

\* One client whose caller sets up the schema, and a processor's initialize().
NextSchema ==
    \/ \E failing \in FailingSets : setup_constraints_and_indexes(failing)
    \/ Initialize(1)

SpecSchema == InitSchema /\ [][NextSchema]_vars

\* One client whose caller creates newsletter nodes.
NextNode == \E newsletter \in NewsletterPool : create_newsletter_node(newsletter)

SpecNode == Init /\ [][NextNode]_vars

\* ---------------------------------------------------------------- claims
Max(a, b) == IF a >= b THEN a ELSE b

\* No instance is between the match and the create of a MERGE.
NoUpsertInFlight == \A r \in Runs : run[r].pc # "create"

\* No instance is inside process_newsletter.
Quiescent == \A r \in Runs : run[r].pc \in {"uninit", "idle", "done"}

RECURSIVE SumOver(_, _)
SumOver(f, dom) ==
    IF dom = {} THEN 0
    ELSE LET t == CHOOSE x \in dom : TRUE IN f[t] + SumOver(f, dom \ {t})

SummaryTotal(summary) == SumOver(summary, DOMAIN summary)

EdgesFrom(e) == { r \in edges : r.src = e.id }

\* C1: the first upsert of a (type, name) that is not in the graph creates exactly
\* one node, with mention_count 1 and the candidate's confidence, and the
\* operation it returns is 'created'.
C1_FirstSightingIsCreated ==
    \A k \in Keys :
        (Len(hist[k]) = 1 /\ hist[k][1].fresh) =>
            /\ \E e \in nodes :
                 /\ Matching(nodes, k[1], k[2]) = {e}
                 /\ e.mention_count = 1
                 /\ e.confidence = hist[k][1].confidence
            /\ hist[k][1].operation = "created"

\* C2: from a graph without the key, two upserts of the same (type, name), one
\* after the other, leave one node whose confidence is the larger of the two
\* candidates' and whose mention_count is 2.
C2_UpsertTwice ==
    \A k \in Keys :
        (Len(hist[k]) = 2 /\ NoUpsertInFlight) =>
            \E e \in nodes :
                /\ Matching(nodes, k[1], k[2]) = {e}
                /\ e.confidence = Max(hist[k][1].confidence, hist[k][2].confidence)
                /\ e.mention_count = 2

\* C2's case: the second candidate's confidence is the larger one.
C2_Witness ==
    \E k \in Keys :
        /\ Len(hist[k]) = 2
        /\ hist[k][1].confidence < hist[k][2].confidence
        /\ NoUpsertInFlight

\* C3: under any interleaving of the instances' upserts, no two nodes have the
\* same (type, name), and once no upsert is in flight the node's mention_count is
\* the number of upserts of its key that returned a row.
C3_NoDoubleCreate ==
    /\ \A a, b \in nodes : KeyOf(a) = KeyOf(b) => a = b
    /\ NoUpsertInFlight =>
         \A e \in nodes : e.mention_count = Len(hist[KeyOf(e)])

\* C4: a node is never removed and its confidence never decreases, and an upsert
\* that matches a node leaves it with the larger of its confidence and the
\* candidate's.
C4_ConfidenceMonotone ==
    [][ /\ \A e \in nodes : \E f \in nodes' : f.id = e.id /\ f.confidence >= e.confidence
        /\ \A r \in Runs :
             (run[r].pc = "upsert" /\ run'[r].pc = "link") =>
                LET entity == run[r].extracted_entities[run[r].i]
                IN  \A e \in Matching(nodes, entity.type, entity.name) :
                      \E f \in nodes' : /\ f.id = e.id
                                        /\ f.confidence = Max(e.confidence, entity.confidence)
      ]_vars

\* C4's case: a node matched by a candidate of lower confidence, and one matched
\* by a candidate of higher confidence.
C4_Witness ==
    \E k \in Keys :
        /\ Len(hist[k]) = 3
        /\ ~ hist[k][2].fresh /\ hist[k][2].confidence < hist[k][1].confidence
        /\ ~ hist[k][3].fresh /\ hist[k][3].confidence > hist[k][2].confidence

\* C5: after any sequence of pipeline runs an entity's mention_count is the
\* number of MENTIONED_IN relationships that leave it.
C5_MentionCountIsEdgeCount ==
    Quiescent => \A e \in nodes : e.mention_count = Cardinality(EdgesFrom(e))

Passing(raw) == { i \in DOMAIN raw : raw[i].confidence >= ENTITY_CONFIDENCE_THRESHOLD }

\* C7: a candidate below the threshold is not extracted, upserted or linked, and
\* is counted in none of entities_new, entities_updated and entity_summary.
C7_BelowThresholdNeverWritten ==
    /\ \A r \in Runs :
         /\ \A i \in DOMAIN run[r].extracted_entities :
              run[r].extracted_entities[i].confidence >= ENTITY_CONFIDENCE_THRESHOLD
         /\ run[r].new_entities + run[r].updated_entities <= Cardinality(Passing(run[r].raw))
         /\ SummaryTotal(run[r].entity_summary) <= Cardinality(Passing(run[r].raw))
    /\ \A e \in nodes : e.confidence >= ENTITY_CONFIDENCE_THRESHOLD
    /\ \A k \in Keys : \A i \in DOMAIN hist[k] :
         hist[k][i].confidence >= ENTITY_CONFIDENCE_THRESHOLD
    /\ \A x \in edges :
         \E d \in RawPool : d.context = x.context /\ d.confidence >= ENTITY_CONFIDENCE_THRESHOLD

\* C7's case: a response with a candidate below the threshold and one above it
\* was processed to the end, and the one above it was upserted and linked.
C7_Witness ==
    \E r \in Runs :
        /\ run[r].pc = "done" /\ run[r].response.status = "success"
        /\ Len(run[r].raw) = 2
        /\ Cardinality(Passing(run[r].raw)) = 1
        /\ run[r].response.entities_new + run[r].response.entities_updated = 1
        /\ \E x \in edges : x.dst = run[r].nid

\* C8: every entity node has a non-empty name and one of the six types.
C8_OnlyValidEntitiesInGraph ==
    \A e \in nodes : e.name # "" /\ e.type \in EntityTypes

\* C9: a retry-wrapped call with max_retries n >= 0 calls the function at most
\* n + 1 times and sleeps at most n times; when n + 1 attempts failed it raises
\* the error of the last attempt; with n = 0 it makes one attempt and no sleep.
C9_RetryBounded ==
    LET n == call.policy.max_retries
    IN  /\ call.invocations <= n + 1
        /\ call.sleeps <= n
        /\ Len(call.errors) = n + 1 <=> call.pc = "raised"
        /\ call.pc = "raised" => call.invocations = n + 1 /\ call.raised = call.errors[n + 1]
        /\ (n = 0 /\ call.pc \in {"returned", "raised"}) =>
              call.invocations = 1 /\ call.sleeps = 0

\* C9's case: every attempt of a call with the largest max_retries failed, the
\* last one with another error than the first.
C9_Witness ==
    /\ call.pc = "raised"
    /\ call.policy.func = "op"
    /\ call.policy.max_retries = MaxRetries
    /\ call.errors[1] # call.raised

\* The phases of connect(), in its order.
PhaseOrder == <<"dns", "tcp", "driver", "test">>

\* C10: connect() attempts its phases in the order DNS, TCP probe, driver
\* creation, test query, and a phase only when every earlier one succeeded: a
\* failed DNS resolution or TCP probe ends the call with False and no driver.
C10_ConnectPhaseOrder ==
    LET trace == client.trace
    IN  /\ Len(trace) <= Len(PhaseOrder)
        /\ \A i \in DOMAIN trace :
             /\ trace[i].phase = PhaseOrder[i]
             /\ i > 1 => trace[i - 1].outcome = "ok"
        /\ \A i \in DOMAIN trace :
             (i <= 2 /\ trace[i].outcome = "failed") =>
                /\ client.result = "False"
                /\ client.pc = "idle"
                /\ client.connects \notin open_drivers
        /\ client.pc = "tcp" => Len(trace) = 1
        /\ (call.pc = "try" /\ call.policy.func = "_create_neo4j_driver") =>
              (Len(trace) = 3 /\ client.pc = "driver")
        /\ (call.pc = "try" /\ call.policy.func = "_test_connection") =>
              (Len(trace) = 4 /\ client.pc = "test")
        /\ client.connects \in open_drivers => (Len(trace) >= 3 /\ trace[3].outcome = "ok")

\* C10's case: DNS resolved and the TCP probe failed.
C10_Witness ==
    /\ Len(client.trace) = 2
    /\ client.trace[2].outcome = "failed"
    /\ client.result = "False"

\* C11: when connect() returns failure, at whichever phase, the client holds no
\* driver handle, and a driver handle is set only by a connect() that returns
\* success.
C11_FailedConnectLeavesNoDriver ==
    /\ (client.pc = "idle" /\ client.result = "False") => client.driver = 0
    /\ (client.pc = "idle" /\ client.driver # 0) => client.result = "True"

\* The client was Connected when the query was made: its last connect() had
\* returned True and it had not been closed since.
WasConnected(q) == q.connect_result = "True" /\ q.open

\* C12: execute_query on a client that is not Connected (never connected, connect
\* failed, or closed) returns None without handing the query to the driver.
C12_NotConnectedFailsFast ==
    (client.query # NoQuery /\ ~ WasConnected(client.query)) =>
        /\ ~ client.query.via_driver
        /\ client.query.result = "None"

\* C13: close() without a driver changes nothing, and no driver object is asked
\* to close more than once.
C13_CloseIdempotent ==
    /\ client.driver = 0 => (client.releases = <<>> /\ open_drivers = {})
    /\ \A i, j \in DOMAIN client.releases : client.releases[i] = client.releases[j] => i = j

\* A process_newsletter call of instance r returned the success response.
Succeeded(r) == run[r].pc = "done" /\ run[r].response.status = "success"

\* The candidates of a run whose upsert returned no row.
UpsertFailures(st) == Len(st.extracted_entities) - (st.new_entities + st.updated_entities)

\* The warnings of a response that are about a candidate.
EntityErrors(errors) ==
    Cardinality({ i \in DOMAIN errors : errors[i] # "Failed to create newsletter node" })

\* C14: a candidate whose upsert fails is recorded in the response's errors, and
\* the candidates after it are still processed.
C14_UpsertFailureIsRecorded ==
    \A r \in Runs :
        Succeeded(r) =>
            /\ run[r].i = Len(run[r].extracted_entities) + 1
            /\ EntityErrors(run[r].response.errors) >= UpsertFailures(run[r])

\* C15: when the LLM call throws or its output cannot be parsed, the run has zero
\* candidates and returns a response whose errors list is not empty.
C15_ExtractionFailureIsWarned ==
    \A r \in Runs :
        (run[r].pc = "done" /\ run[r].llm \in {"raise", "badjson"}) =>
            /\ run[r].response.status \in {"success", "error"}
            /\ run[r].response.entities_extracted = 0
            /\ Len(run[r].response.errors) >= 1

\* C16: a run returns success only if one of its graph writes succeeded: without
\* a driver handle, or when each of its queries fails, the response is an error.
C16_UnreachableStoreIsError ==
    \A r \in Runs :
        Succeeded(r) =>
            \/ \E n \in newsletters : n.id = run[r].nid
            \/ run[r].new_entities + run[r].updated_entities > 0

\* C17: every process_newsletter call returns a response.  Empty cleaned text,
\* and a missing extractor, give status error with the step reached
\* (cleaning_html, extracting_entities) and the warnings gathered; an exception
\* of a step gives the error response of that step; otherwise the call goes
\* through to the success response.
C17_NeverRaises ==
    \A r \in Runs :
        run[r].pc = "done" =>
            LET resp == run[r].response
            IN  /\ resp.status \in {"success", "error"}
                /\ resp.newsletter_id = run[r].nid
                /\ resp.errors = run[r].errors
                /\ run[r].clean = "empty" =>
                      /\ resp.status = "error" /\ resp.step = "cleaning_html"
                      /\ resp.errors = <<"Failed to clean HTML content">>
                /\ run[r].clean = "raise" =>
                      /\ resp.status = "error" /\ resp.step = "cleaning_html"
                      /\ Len(resp.errors) = 1
                /\ (run[r].clean = "text" /\ ~ run[r].had_extractor) =>
                      /\ resp.status = "error" /\ resp.step = "extracting_entities"
                      /\ resp.errors = <<"Entity extractor not initialized">>
                /\ (run[r].clean = "text" /\ run[r].had_extractor) => resp.status = "success"
                /\ resp.status = "error" =>
                      resp.entities_new = 0 /\ resp.entities_updated = 0

\* C17's case: a processor without an extractor was given a newsletter whose HTML
\* cleaned to text, after a call of it whose HTML cleaned to nothing.
C17_Witness ==
    \E r \in Runs :
        /\ run[r].pc = "done" /\ run[r].served = 2
        /\ run[r].clean = "text" /\ ~ run[r].had_extractor
        /\ run[r].response.status = "error"

\* The candidates of the run are of pairwise distinct (type, name).
DistinctKeys(st) ==
    \A i, j \in DOMAIN st.extracted_entities :
        KeyOf(st.extracted_entities[i]) = KeyOf(st.extracted_entities[j]) => i = j

\* The run's candidates of a type.
OfType(st, t) == { i \in DOMAIN st.extracted_entities : st.extracted_entities[i].type = t }

\* C18: a newsletter with k valid candidates of distinct keys that were not in
\* the graph, on a store whose queries all succeed, returns entities_new = k and
\* entities_updated = 0, has k MENTIONED_IN edges, and its entity_summary counts
\* the candidates per type.
C18_NewCandidatesCounted ==
    \A r \in Runs :
        ( /\ Succeeded(r) /\ run[r].healthy
          /\ DistinctKeys(run[r])
          /\ \A i \in DOMAIN run[r].extracted_entities :
               LET h == hist[KeyOf(run[r].extracted_entities[i])]
               IN  Len(h) = 1 /\ h[1].fresh )
        => /\ run[r].response.entities_new = Len(run[r].extracted_entities)
           /\ run[r].response.entities_updated = 0
           /\ Cardinality({ x \in edges : x.dst = run[r].nid }) = Len(run[r].extracted_entities)
           /\ \A t \in EntityTypes :
                run[r].response.entity_summary[t] = Cardinality(OfType(run[r], t))

\* C19: a second newsletter whose candidates are keys a first newsletter created
\* returns entities_new = 0 and entities_updated = the number of candidates,
\* creates no node, and leaves each of the entities with mention_count 2.
C19_SecondNewsletterUpdates ==
    \A r \in Runs :
        ( /\ Succeeded(r) /\ run[r].healthy
          /\ DistinctKeys(run[r])
          /\ \A i \in DOMAIN run[r].extracted_entities :
               LET h == hist[KeyOf(run[r].extracted_entities[i])]
               IN  Len(h) = 2 /\ h[1].fresh )
        => /\ run[r].response.entities_new = 0
           /\ run[r].response.entities_updated = Len(run[r].extracted_entities)
           /\ \A e \in nodes : ~ (e.id[1] = r /\ e.id[2] = run[r].served)
           /\ \A i \in DOMAIN run[r].extracted_entities :
                LET entity == run[r].extracted_entities[i]
                IN  \E e \in nodes : /\ Matching(nodes, entity.type, entity.name) = {e}
                                     /\ e.mention_count = 2

\* C19's case: the second newsletter named both entities of the first.
C19_Witness ==
    \E r \in Runs :
        /\ Succeeded(r) /\ run[r].healthy /\ run[r].served = 2
        /\ DistinctKeys(run[r])
        /\ Len(run[r].extracted_entities) = 2
        /\ \A i \in DOMAIN run[r].extracted_entities :
             LET h == hist[KeyOf(run[r].extracted_entities[i])]
             IN  Len(h) = 2 /\ h[1].fresh
        /\ Cardinality(nodes) = 2
        /\ Cardinality(edges) = 4

\* The ids of the create_newsletter_node calls that returned the node.
MergedIds == { client.merged[i].newsletter.newsletter_id : i \in DOMAIN client.merged }

\* The first of those calls with the id.
FirstMerged(id) ==
    client.merged[CHOOSE i \in DOMAIN client.merged :
                    /\ client.merged[i].newsletter.newsletter_id = id
                    /\ \A j \in 1..(i - 1) : client.merged[j].newsletter.newsletter_id # id]

\* C20: after any calls of create_newsletter_node there is exactly one Newsletter
\* node per id passed, and its subject, sender, received_date, content_length and
\* created_at are those of the first call with the id.
C20_NewsletterNodeIdempotent ==
    newsletters = { NewsletterNode(FirstMerged(id).newsletter, FirstMerged(id).at) : id \in MergedIds }

\* C20's case: an id was passed a second time with other field values.
C20_Witness ==
    \E i, j \in DOMAIN client.merged :
        /\ i < j
        /\ client.merged[i].newsletter.newsletter_id = client.merged[j].newsletter.newsletter_id
        /\ client.merged[i].newsletter.subject # client.merged[j].newsletter.subject
        /\ Cardinality(newsletters) = 2

\* The dict has what Entity(...) needs and passes the threshold.
ValidCandidate(d) ==
    /\ d.name # Missing /\ d.type # Missing
    /\ d.confidence >= ENTITY_CONFIDENCE_THRESHOLD /\ d.confidence <= ConfidenceLe

\* The dict lacks a required field.
Malformed(d) == d.name = Missing \/ d.type = Missing

\* An extract_entities call on a parsed response was made.
Extracted(r) == run[r].llm = "ok" /\ run[r].had_client

\* C21: from a response whose candidates are valid or lack name or type,
\* extract_entities returns every valid candidate (the valid ones being within
\* the cap).
C21_MalformedDroppedAlone ==
    \A r \in Runs :
        ( /\ Extracted(r)
          /\ \A i \in DOMAIN run[r].raw : ValidCandidate(run[r].raw[i]) \/ Malformed(run[r].raw[i])
          /\ Cardinality({ i \in DOMAIN run[r].raw : ValidCandidate(run[r].raw[i]) })
                <= MAX_ENTITIES_PER_NEWSLETTER )
        => \A i \in DOMAIN run[r].raw :
             ValidCandidate(run[r].raw[i]) =>
                \E j \in DOMAIN run[r].extracted_entities :
                    run[r].extracted_entities[j] = Entity(run[r].raw[i])

\* The confidences of a list of entities or dicts that are c.
CountConf(s, idx, c) == Cardinality({ i \in idx : s[i].confidence = c })

\* C22: the returned list has at most MAX_ENTITIES_PER_NEWSLETTER entities, each
\* at or above the threshold; when the cap removed entities, the kept ones are in
\* descending order of confidence and none of them is below a removed one.
C22_FilterThenCap ==
    \A r \in Runs :
        Extracted(r) =>
            LET out == run[r].extracted_entities
                raw == run[r].raw
                passing == { i \in DOMAIN raw : GetConfidence(raw[i]) >= ENTITY_CONFIDENCE_THRESHOLD }
            IN  /\ Len(out) <= MAX_ENTITIES_PER_NEWSLETTER
                /\ \A j \in DOMAIN out : out[j].confidence >= ENTITY_CONFIDENCE_THRESHOLD
                /\ ( /\ \A i \in passing : ValidCandidate(raw[i])
                     /\ Cardinality(passing) > MAX_ENTITIES_PER_NEWSLETTER )
                   => /\ Len(out) = MAX_ENTITIES_PER_NEWSLETTER
                      /\ \A j \in 1..(Len(out) - 1) : out[j].confidence >= out[j + 1].confidence
                      /\ \A c \in 0..ConfidenceLe :
                           /\ CountConf(out, DOMAIN out, c) <= CountConf(raw, passing, c)
                           /\ c > out[Len(out)].confidence =>
                                 CountConf(out, DOMAIN out, c) = CountConf(raw, passing, c)
                /\ ( /\ \A i \in passing : ValidCandidate(raw[i])
                     /\ Cardinality(passing) <= MAX_ENTITIES_PER_NEWSLETTER )
                   => Len(out) = Cardinality(passing)

\* C22's case: three candidates pass the threshold, the best of them last.
C22_Witness ==
    \E r \in Runs :
        /\ Extracted(r)
        /\ Len(run[r].raw) = 3
        /\ \A i \in DOMAIN run[r].raw : ValidCandidate(run[r].raw[i])
        /\ run[r].raw[1].confidence < run[r].raw[2].confidence
        /\ run[r].raw[2].confidence < run[r].raw[3].confidence
        /\ Len(run[r].extracted_entities) = MAX_ENTITIES_PER_NEWSLETTER
        /\ run[r].extracted_entities[1] = Entity(run[r].raw[3])

\* C23: extract_entities returns [] when the extractor has no client, and then
\* without calling the LLM, when the LLM call raises, and when the response is
\* not JSON.
C23_ExtractNeverRaises ==
    \A r \in Runs :
        /\ ~ run[r].had_client => (~ run[r].llm_called /\ run[r].extracted_entities = <<>>)
        /\ run[r].llm \in {"raise", "badjson"} => run[r].extracted_entities = <<>>
        /\ (run[r].llm # "none" /\ run[r].had_client) => run[r].llm_called

\* C23's case: an extractor without a client was asked, with an LLM that would
\* have answered with entities.
C23_Witness ==
    \E r \in Runs :
        /\ ~ run[r].had_client
        /\ run[r].llm = "ok"
        /\ \E i \in DOMAIN run[r].raw : ValidCandidate(run[r].raw[i])

\* The schema objects of the statements of a call that succeeded.
Made(attempted) == { SchemaObjects[i] : i \in { j \in DOMAIN attempted : attempted[j].ok } }

\* C24: setup_constraints_and_indexes on a client with a driver executes each of
\* its ten statements in order whichever of them failed, and leaves the schema it
\* found plus what the statements that succeeded make, so that a second run adds
\* nothing to a complete first one; without a driver it does nothing.
C24_SchemaSetupBestEffort ==
    [][ client'.setups = client.setups + 1 =>
          IF client.driver = 0
          THEN constraints' = constraints /\ client'.attempted = <<>>
          ELSE /\ Len(client'.attempted) = Len(SchemaStatements)
               /\ \A i \in DOMAIN SchemaStatements :
                    client'.attempted[i].statement = SchemaStatements[i]
               /\ constraints' = constraints \cup Made(client'.attempted)
               /\ Made(client.attempted) \subseteq constraints
               /\ Made(client'.attempted) = Made(client.attempted) =>
                     (client.setups > 0 => constraints' = constraints)
      ]_vars

\* C24's case: in the second of two runs the first and the last statement failed
\* and the others succeeded, and a processor's initialize() returned True though
\* no constraint of its labels was made.
C24_Witness ==
    /\ client.setups = 2
    /\ Len(client.attempted) = Len(SchemaStatements)
    /\ ~ client.attempted[1].ok
    /\ client.attempted[2].ok
    /\ ~ client.attempted[10].ok
    /\ "entity_last_seen_idx" \in constraints
    /\ "Organization" \notin constraints
    /\ run[1].driver /\ run[1].pc = "idle"

\* C25: an answer of the stats endpoint with status 200 carries the eight counts,
\* each a natural number.
C25_StatsAlwaysComplete ==
    service.stats.status_code = 200 =>
        /\ DOMAIN service.stats.body = StatsKeys
        /\ \A k \in StatsKeys : service.stats.body[k] \in Nat

\* C26: /health answers 200 'healthy' exactly when shutdown_event is not set and
\* 503 'unhealthy' when it is, and no step of the service resets the flag.
C26_HealthFollowsShutdownFlag ==
    [][ /\ service.shutdown_event => service'.shutdown_event
        /\ Len(service'.health_log) = Len(service.health_log) + 1 =>
             /\ service'.health.status_code = (IF service.shutdown_event THEN 503 ELSE 200)
             /\ service'.health.body.status =
                  (IF service.shutdown_event THEN "unhealthy" ELSE "healthy")
             /\ service'.health_log = Append(service.health_log, service'.health.status_code)
        /\ \A i, j \in DOMAIN service'.health_log :
             (i < j /\ service'.health_log[i] = 503) => service'.health_log[j] = 503
      ]_vars

\* C26's case: /health answered 200, a signal came, a newsletter was processed
\* and the stats were read, and /health answers 503.
C26_Witness ==
    /\ service.health_log = <<200, 503>>
    /\ service.shutdown_event
    /\ service.health.body.status = "unhealthy"
    /\ run[1].pc = "done"
    /\ service.stats.status_code = 200

RECURSIVE Pow(_, _)
Pow(b, k) == IF k = 0 THEN 1 ELSE b * Pow(b, k - 1)

\* The un-jittered delay before the k-th retry, as the formula gives it.
DelayBefore(policy, k) ==
    Min(policy.initial_delay * Pow(policy.exponential_base, k), policy.max_delay)

\* C27: no sleep comes before the first attempt; after k >= 1 sleeps the delay is
\* min(initial_delay * base^k, max_delay), at most max_delay and at least the
\* delay before it, and the last sleep (in tenths of a second) is that delay, or
\* with jitter between half of it and all of it.
C27_BackoffDelays ==
    call.pc # "idle" =>
        /\ call.invocations = 0 => (call.sleeps = 0 /\ call.slept = 0)
        /\ call.sleeps <= call.invocations
        /\ call.sleeps = 0 => (call.slept = 0 /\ call.delay = call.policy.initial_delay)
        /\ call.sleeps >= 1 =>
             /\ call.delay = DelayBefore(call.policy, call.sleeps)
             /\ call.delay >= DelayBefore(call.policy, call.sleeps - 1)
             /\ 5 * call.delay <= call.slept /\ call.slept <= 10 * call.delay
             /\ ~ call.policy.jitter => call.slept = 10 * call.delay
        /\ call.delay <= call.policy.max_delay

\* C27's case: the second retry of an operation whose delay reached max_delay
\* (1 * 2^2 > 3), slept with jitter at half the delay.
C27_Witness ==
    /\ call.policy.func = "op" /\ call.policy.jitter
    /\ call.sleeps = 2
    /\ call.delay = call.policy.max_delay
    /\ call.delay < call.policy.initial_delay * Pow(call.policy.exponential_base, 2)
    /\ call.slept = 5 * call.delay

\* C28: the error the wrapper raises when the retries are exhausted is not the
\* function's own exception as it was raised but one that carries the number of
\* attempts made.
C28_RaisedErrorTagged ==
    call.pc = "raised" => call.raised \notin Errors

\* A call that has just begun.
Fresh(c) ==
    /\ c.pc = "try"
    /\ c.attempt = 0 /\ c.invocations = 0 /\ c.errors = <<>>
    /\ c.delay = c.policy.initial_delay
    /\ c.sleeps = 0 /\ c.slept = 0

\* The attempts, sleeps and delay of a call are those its own failures give.
OwnCourse(c) ==
    c.pc # "idle" =>
        /\ c.attempt = Len(c.errors)
        /\ c.invocations = Len(c.errors) + (IF c.pc = "returned" THEN 1 ELSE 0)
        /\ c.sleeps = Len(c.errors) - (IF c.pc = "raised" THEN 1 ELSE 0)
        /\ c.delay = DelayBefore(c.policy, c.sleeps)
        /\ c.pc = "raised" <=> Len(c.errors) = c.policy.max_retries + 1

\* C29: every call of the wrapped function begins with attempt 0 and delay
\* initial_delay whatever calls came before or run beside it; its attempts and
\* delays follow from its own failures; a step of one call leaves the other call
\* as it is; and a call that returned does nothing more.
C29_WrapperKeepsNoState ==
    [][ /\ (call.pc # "try" /\ call'.pc = "try") => Fresh(call')
        /\ (wrapped.frame.pc # "try" /\ wrapped'.frame.pc = "try") => Fresh(wrapped'.frame)
        /\ OwnCourse(call') /\ OwnCourse(wrapped'.frame)
        /\ call' # call => wrapped'.frame = wrapped.frame
        /\ wrapped'.frame # wrapped.frame => call' = call
        /\ call.pc = "returned" => (call' = call \/ Fresh(call'))
        /\ wrapped.frame.pc = "returned" =>
              (wrapped'.frame = wrapped.frame \/ Fresh(wrapped'.frame))
      ]_vars

\* C29's case: an earlier call exhausted its retries, the second caller's call is
\* in its third attempt, and the first caller's call returned at its first.
C29_Witness ==
    /\ Len(wrapped.finished) >= 1 /\ wrapped.finished[1] = "raised"
    /\ wrapped.frame.pc = "try" /\ wrapped.frame.attempt = 2
    /\ call.pc = "returned" /\ call.invocations = 1 /\ call.sleeps = 0

\* C30: a connect() calls _create_neo4j_driver at most 4 times and
\* _test_connection at most 3 times, and a connect() that has begun comes to its
\* end with True or False.
C30_ConnectTerminates ==
    /\ [](call.policy.func = "_create_neo4j_driver" => call.invocations <= 4)
    /\ [](call.policy.func = "_test_connection" => call.invocations <= 3)
    /\ [](client.pc \in {"driver", "test"} => call.pc # "idle")
    /\ (client.pc # "idle") ~> (client.pc = "idle" /\ client.result \in {"True", "False"})

\* C30's case: the driver was created, the test query failed three times, and
\* the wrapper raised: connect() is about to return False.
C30_Witness ==
    /\ client.pc = "test"
    /\ call.policy.func = "_test_connection"
    /\ call.pc = "raised" /\ call.invocations = 3
    /\ client.trace[3] = Phase("driver", "ok")

\* C31: a reconnect_if_needed that finds the client healthy returns True and
\* leaves the driver handle, the open drivers and the connect() count as they
\* were; one that finds no driver or a failed health query has closed the handle
\* it found and cleared self.driver when its connect() begins; and a
\* get_connection_health leaves the handle and the open drivers as they were.
C31_ReconnectOnlyWhenUnhealthy ==
    [][ /\ client'.reconnects = client.reconnects + 1 =>
             LET health == client'.reconnect.health
             IN  /\ client'.reconnect.had = client.driver
                 /\ health.has_driver <=> client.driver # 0
                 /\ IF health.has_driver /\ health.is_healthy
                    THEN /\ client'.driver = client.driver
                         /\ open_drivers' = open_drivers
                         /\ client'.connects = client.connects
                         /\ client'.pc = "idle"
                         /\ ReconnectResult(client') = "True"
                    ELSE /\ client'.reconnect.reconnected
                         /\ client'.driver = 0
                         /\ client.driver \notin open_drivers'
                         /\ open_drivers' = open_drivers \ {client.driver}
                         /\ client'.connects = client.connects + 1
        /\ client'.healths = client.healths + 1 =>
             /\ client'.driver = client.driver
             /\ open_drivers' = open_drivers
             /\ client'.pc = client.pc
      ]_vars

\* C31's case: a reconnect_if_needed found its driver's health query failing,
\* closed that driver, and its connect() returned True with a new driver.
C31_Witness ==
    /\ client.reconnect.reconnected
    /\ client.reconnect.health.has_driver /\ ~ client.reconnect.health.is_healthy
    /\ client.reconnect.had # 0 /\ client.reconnect.had \notin open_drivers
    /\ client.pc = "idle" /\ ReconnectResult(client) = "True"
    /\ client.driver # 0 /\ client.driver # client.reconnect.had
    /\ client.driver \in open_drivers

\* C32: every entity extract_entities returns has a confidence above the
\* threshold: a candidate at the threshold is dropped.
C32_ThresholdExclusive ==
    Extracted(1) =>
        \A i \in DOMAIN run[1].extracted_entities :
            run[1].extracted_entities[i].confidence > ENTITY_CONFIDENCE_THRESHOLD

\* C33: a step of an upsert leaves every node there is in the graph, with its
\* type, name, aliases, created_at and properties_json as they were; what it may
\* change of a node is last_seen, mention_count and confidence.
C33_MatchKeepsCreationFields ==
    [][ \A e \in nodes :
          \E f \in nodes' :
             /\ f.id = e.id
             /\ f.type = e.type /\ f.name = e.name
             /\ f.aliases = e.aliases
             /\ f.created_at = e.created_at
             /\ f.properties_json = e.properties_json
             /\ f # e => (f.mention_count = e.mention_count + 1 /\ f.last_seen # e.last_seen)
      ]_vars

\* C33's case: a node made by a candidate without aliases or properties was
\* matched by the candidate of confidence 9 that has both: the confidence rose
\* and the aliases and properties are those of the creation.
C33_Witness ==
    \E e \in nodes :
        /\ e.aliases = {} /\ e.properties_json = PropertiesJson(<<>>)
        /\ e.mention_count >= 2
        /\ e.confidence = 9
        /\ \E d \in RawPool : /\ d.name = e.name /\ d.type = e.type /\ d.confidence = 9
                              /\ d.aliases # {} /\ d.properties # <<>>

\* C34: in a run the graph is written only after cleaning gave text and the
\* extractor was called; the newsletter node is written in step 3 only, entity
\* nodes by the upsert only and edges by the link only; the loop goes to a
\* candidate's link only from that candidate's upsert and only when it returned
\* a row; and after an upsert that failed the loop is at the next candidate.
C34_StepOrder ==
    [][ LET st == run[1]
            nx == run'[1]
        IN  /\ <<nodes, newsletters, edges>>' # <<nodes, newsletters, edges>> =>
                 /\ st.clean = "text" /\ st.had_extractor
                 /\ st.pc \in {"newsletter", "upsert", "create", "link"}
            /\ newsletters' # newsletters => st.pc = "newsletter"
            /\ nodes' # nodes => st.pc \in {"upsert", "create"}
            /\ edges' # edges => st.pc = "link"
            /\ (st.pc = "newsletter" /\ nx.pc # st.pc) => nx.pc \in {"upsert", "summary"}
            /\ (nx.pc = "link" /\ st.pc # "link") =>
                 /\ st.pc \in {"upsert", "create"}
                 /\ nx.i = st.i
                 /\ hist' # hist
                 /\ nx.new_entities + nx.updated_entities
                      = st.new_entities + st.updated_entities + 1
            /\ (st.pc \in {"upsert", "create"} /\ nx.pc \notin {"link", "create", st.pc}) =>
                 /\ nx.i = st.i + 1 /\ hist' = hist /\ nodes' = nodes
            /\ (st.pc \in {"upsert", "create"} /\ nx.i = st.i + 1) =>
                 /\ hist' = hist /\ edges' = edges /\ nx.pc # "link"
            /\ (st.pc = "link" /\ nx # st) =>
                 /\ nx.i = st.i + 1 /\ nx.pc \in {"upsert", "summary"} /\ nodes' = nodes
      ]_vars

\* C34's case: a run of two candidates ended in success; the upsert of one
\* failed and the other was upserted and linked to the run's newsletter.
C34_Witness ==
    /\ Succeeded(1)
    /\ Len(run[1].extracted_entities) = 2
    /\ run[1].new_entities + run[1].updated_entities = 1
    /\ \E n \in newsletters : n.id = run[1].nid
    /\ \E e \in edges : e.dst = run[1].nid

\* C36: after a run that returned success, for every type the entity_summary
\* counts there is a node of that type with a MENTIONED_IN edge to the run's
\* newsletter node.
C36_CountedEntitiesLinked ==
    Succeeded(1) =>
        \A t \in DOMAIN run[1].response.entity_summary :
            run[1].response.entity_summary[t] > 0 =>
                \E n \in nodes, e \in edges :
                    n.type = t /\ e.src = n.id /\ e.dst = run[1].nid

\* C37: in a success response entities_new + entities_updated is the sum of the
\* entity_summary counts and at most entities_extracted, and entity_summary has
\* a key for each of the six types; in an error response entities_new and
\* entities_updated are 0 and entity_summary is empty.
C37_ResponseCountsAgree ==
    \A r \in Runs :
        run[r].pc = "done" =>
            LET resp == run[r].response
            IN  /\ resp.status = "success" =>
                     /\ resp.entities_new + resp.entities_updated
                          = SummaryTotal(resp.entity_summary)
                     /\ resp.entities_new + resp.entities_updated <= resp.entities_extracted
                     /\ EntityTypes \subseteq DOMAIN resp.entity_summary
                     /\ resp.entities_new >= 0 /\ resp.entities_updated >= 0
                /\ resp.status = "error" =>
                     /\ resp.entities_new = 0 /\ resp.entities_updated = 0
                     /\ DOMAIN resp.entity_summary = {}

\* C37's case: a success response that counts two candidates, one of a type
\* that is none of the six.
C37_Witness ==
    /\ Succeeded(1)
    /\ run[1].response.entities_new + run[1].response.entities_updated = 2
    /\ DOMAIN run[1].response.entity_summary # EntityTypes
    /\ run[1].response.entity_summary["Organization"] = 1

\* The statements of the run in hand of instance r carry its number.
OfRun(stamp, r) == stamp # NoTime /\ stamp[1] = r /\ stamp[2] = run[r].served

\* C38: when a run returned status error, no newsletter node has its id, no edge
\* leads to it and no entity node was created or matched by a statement of it.
C38_ErrorMeansNoWrites ==
    \A r \in Runs :
        (run[r].pc = "done" /\ run[r].response.status = "error") =>
            /\ ~ \E n \in newsletters : n.id = run[r].nid
            /\ ~ \E e \in edges : e.dst = run[r].nid
            /\ ~ \E n \in nodes : OfRun(n.created_at, r) \/ OfRun(n.last_seen, r)

\* C38's case: a first run wrote to the graph and returned success; the second
\* returned error.
C38_Witness ==
    /\ run[1].pc = "done" /\ run[1].response.status = "error"
    /\ run[1].served = 2
    /\ nodes # {} /\ newsletters # {} /\ edges # {}

\* The nodes the search is to find: those whose name or an alias is a substring
\* of the query or contains it.
Similar(e, query) ==
    \/ Contains(e.name, query) \/ Contains(query, e.name)
    \/ \E alias \in e.aliases : Contains(alias, query) \/ Contains(query, alias)

InResult(e, result) == \E i \in DOMAIN result : result[i] = e

\* C35: a find_similar_entities whose query ran returns at most 10 rows, all of
\* the given type, by mention_count descending and then confidence descending,
\* and, when no more than 10 nodes of the type are similar to the query, every
\* one of them.
C35_FindSimilarComplete ==
    (client.found.called /\ client.found.ok) =>
        LET found == client.found
            wanted == { e \in nodes : e.type = found.entity_type
                                      /\ Similar(e, found.search_term) }
        IN  /\ Len(found.result) <= SIMILAR_LIMIT
            /\ \A i \in DOMAIN found.result : found.result[i].type = found.entity_type
            /\ \A i, j \in DOMAIN found.result :
                 i < j => ~ RanksBefore(found.result[j], found.result[i])
            /\ Cardinality(wanted) <= SIMILAR_LIMIT =>
                 \A e \in wanted : InResult(e, found.result)

\* C39: between the calls of the client, every driver that was created and is
\* not closed is the one self.driver holds.
C39_NoDriverAbandoned ==
    client.pc = "idle" => \A d \in open_drivers : d = client.driver

\* C40: the processor is called, by the process endpoint and by the stats
\* endpoint, only with the initialized flag set; a processor is built only with
\* the flag not set; the flag becomes set only with a processor just built whose
\* initialize() returned True; one whose initialize() returned False leaves the
\* flag as it was, not set, and the endpoint answers 503; and the flag is reset
\* by shutdown_processor only, which leaves the processor as it is.
C40_ProcessorUsedOnlyInitialized ==
    [][ /\ run'[1].served = run[1].served + 1 =>
             service.initialized /\ service.pending = "process" /\ run[1].driver
        /\ (service'.stats_calls = service.stats_calls + 1
              /\ service'.stats.status_code = 200) =>
             service'.initialized /\ run'[1].driver
        /\ service'.processors # service.processors =>
             /\ ~ service.initialized
             /\ service'.processors = service.processors + 1
             /\ service'.initialized <=> run'[1].driver
             /\ run'[1].served = run[1].served /\ run'[1].pc \in {"uninit", "idle"}
             /\ ~ run'[1].driver =>
                  /\ service'.failed_inits = service.failed_inits + 1
                  /\ service'.pending = "none"
                  /\ \/ service'.process = InitializationFailed
                           /\ service'.stats_calls = service.stats_calls
                     \/ service'.stats = InitializationFailed
                           /\ service'.stats_calls = service.stats_calls + 1
        /\ (~ service.initialized /\ service'.initialized) =>
             service'.processors = service.processors + 1
        /\ (service.initialized /\ ~ service'.initialized) =>
             /\ service'.shutdowns = service.shutdowns + 1
             /\ run' = run
             /\ service'.processors = service.processors
      ]_vars

\* C40's case: a first processor did not initialize and the request got 503;
\* the next request built one that did; it was shut down; and the request after
\* built a third, which processed a newsletter to a 200.
C40_Witness ==
    /\ service.processors = 3
    /\ service.failed_inits = 1
    /\ service.shutdowns = 1
    /\ service.initialized
    /\ service.pending = "none"
    /\ service.process.status_code = 200

====
